---- MODULE Spec2Model ----
(***************************************************************************)
(* Model of the networking-lunches matching run (lib/matching-algorithm):  *)
(* runMatchingAlgorithm and its helpers groupByAvailability,               *)
(* groupByLocation, createOptimalGroups and updateParticipantStatuses,     *)
(* together with the two Firestore collections the run writes to.          *)
(*                                                                         *)
(* A JavaScript array is a sequence.  A Record<string, T[]> whose keys are *)
(* created on first use (locationGroups, practiceAreaMap) is a sequence of *)
(* [key, members] records in insertion order, which is the order           *)
(* Object.entries / Object.keys enumerate non-numeric string keys.         *)
(* An optional field that is unset is the empty sequence (`x || []`).      *)
(***************************************************************************)
EXTENDS Integers, Sequences, FiniteSets, TLC

VARIABLES
    participants,        \* the Participant[] handed to runMatchingAlgorithm: dashboard
                         \* state participants where a dashboard is mounted
    surveyStore,         \* collection 'survey-responses': id -> [status, matchGroup]
    groupsStore,         \* collection 'match-groups': the persisted group documents
    pc,                  \* position of the run
    availabilityGroups,  \* result of groupByAvailability
    plan,                \* the groups the loops of the run emit, in loop order
    matchGroups,         \* the local matchGroups array of the run
    batch,               \* updates queued on the WriteBatch
    storeOps,            \* store operations issued so far, with their outcome
    reported,            \* what the caller of the run has received from it
    bucket,              \* one location bucket: the locationParticipants of the run
    built,               \* what createOptimalGroups returned for the bucket
    bucketGroups,        \* the match groups the run builds from them
    working,             \* the groups array of createOptimalGroups while it is filled
    queue,               \* the participants the first distribution has still to place
    placed,              \* the participants it has placed, in the order of placement
    responses,           \* collection 'survey-responses': the answers of its documents
    dashCycle,           \* dashboard state cycle
    loading,             \* dashboard state loading
    activeTab,           \* dashboard state activeTab
    mounted,             \* the component is mounted: no render of it has thrown
    loads,               \* loadParticipants calls awaiting a getDocs
    dashGroups,          \* dashboard state matchGroups: references to group objects
    dashObjects,         \* the group objects the dashboard or a toggle in flight holds
    runningMatch,        \* dashboard state runningMatch
    runs,                \* handleRunMatching calls in flight: the state of their run
    sendingEmails,       \* dashboard state sendingEmails
    error,               \* dashboard state error
    toggles,             \* toggleGroupFinalization calls awaiting their updateDoc
    edits,               \* updateDoc calls of the group card selects, awaited
    sendQueue,           \* updateDoc calls handleSendEmails has still to make
    sendPc,              \* position of handleSendEmails
    sendCycle,           \* the cycle handleSendEmails was called with
    clicks               \* clicks, select changes and submissions handled so far

runVars == <<participants, surveyStore, groupsStore, pc, availabilityGroups,
             plan, matchGroups, batch, storeOps, reported>>

runVarsButPc == <<participants, surveyStore, groupsStore, availabilityGroups,
                  plan, matchGroups, batch, storeOps, reported>>

\* the part of the state only the study of a single bucket uses
bucketVars == <<bucket, built, bucketGroups, working, queue, placed>>

\* the dashboard: its React state and its handlers in flight
adminVars == <<responses, dashCycle, loading, activeTab, mounted, loads,
               dashGroups, dashObjects, runningMatch, runs, sendingEmails, error,
               toggles, edits, sendQueue, sendPc, sendCycle, clicks>>

vars == <<runVars, bucketVars, adminVars>>

(***************************************************************************)
(* Bounds                                                                  *)
(***************************************************************************)
MaxParticipants == 5

\* longest bucket handed to createOptimalGroups on its own
MaxBucket == 9

\* longest bucket with experience levels outside the five bands
MaxUncheckedBucket == 4

\* surveys in the store of the dashboard, and the clicks, select changes and
\* form submissions that are handled
MaxAdminParticipants == 2

MaxClicks == 2

(***************************************************************************)
(* Program constants                                                       *)
(***************************************************************************)
SlotOrder == <<"Weekday Lunch", "Weekday Dinner", "Weekend Lunch", "Weekend Dinner">>

Range(s) == {s[i] : i \in DOMAIN s}

SlotSet == Range(SlotOrder)

experienceLevels ==
    ("0-3 years" :> 1) @@ ("4-7 years" :> 2) @@ ("8-15 years" :> 3) @@
    ("15+ years" :> 4) @@ ("Judicial Officer" :> 5)

CurrentCycle == "March 2025"

NoGroup == 0

(***************************************************************************)
(* Inputs: the survey answers a participant record is drawn from.          *)
(***************************************************************************)
Answers(avail, sep, locs, wl, wd, wel, wed, areas, level) ==
    [availability |-> avail, useSeparateLocations |-> sep, locations |-> locs,
     weekdayLunchLocations |-> wl, weekdayDinnerLocations |-> wd,
     weekendLunchLocations |-> wel, weekendDinnerLocations |-> wed,
     practiceAreas |-> areas, experienceLevel |-> level]

Profiles ==
    { Answers(<<"Weekday Lunch">>, FALSE, <<"tustin">>,
              <<>>, <<>>, <<>>, <<>>, <<"corp">>, "4-7 years"),
      Answers(<<"Weekday Lunch", "Weekday Dinner">>, FALSE, <<"tustin", "irvine">>,
              <<>>, <<>>, <<>>, <<>>, <<"lit", "corp">>, "0-3 years"),
      Answers(<<"Weekday Dinner", "Weekday Lunch">>, TRUE, <<"irvine">>,
              <<"tustin">>, <<"tustin", "irvine">>, <<>>, <<>>, <<"corp">>, "0-3 years"),
      Answers(<<"Weekday Dinner">>, TRUE, <<"tustin">>,
              <<>>, <<"irvine">>, <<>>, <<>>, <<"lit">>, "15+ years"),
      Answers(<<"Weekday Lunch">>, FALSE, <<>>,
              <<"tustin">>, <<>>, <<>>, <<>>, <<"lit">>, "8-15 years"),
      Answers(<<>>, FALSE, <<"tustin">>,
              <<>>, <<>>, <<>>, <<>>, <<"fam">>, "Judicial Officer"),
      Answers(<<"Weekend Dinner", "Weekday Lunch">>, TRUE, <<"tustin">>,
              <<>>, <<>>, <<>>, <<"tustin">>, <<"fam">>, "8-15 years") }

WithId(a, i) ==
    [id |-> i, availability |-> a.availability,
     useSeparateLocations |-> a.useSeparateLocations, locations |-> a.locations,
     weekdayLunchLocations |-> a.weekdayLunchLocations,
     weekdayDinnerLocations |-> a.weekdayDinnerLocations,
     weekendLunchLocations |-> a.weekendLunchLocations,
     weekendDinnerLocations |-> a.weekendDinnerLocations,
     practiceAreas |-> a.practiceAreas, experienceLevel |-> a.experienceLevel]

(***************************************************************************)
(* groupByAvailability                                                     *)
(***************************************************************************)
\* participant.availability[0]; reading past the end of an array is undefined
Availability0(p) ==
    IF Len(p.availability) > 0 THEN p.availability[1] ELSE "undefined"

\* group.find(p => p.id === id)
HasId(group, id) == \E i \in DOMAIN group : group[i].id = id

\* variant: a participant who lists one of the four slots anywhere is accepted
ClassifyThrowsWithoutAnySlot(ps) ==
    \E i \in DOMAIN ps :
        Len(ps[i].availability) > 0 /\ Range(ps[i].availability) \cap SlotSet = {}

\* groups[availability[0]].push on a key that is none of the four throws
ClassifyThrows(ps) ==
    \E i \in DOMAIN ps :
        Len(ps[i].availability) > 0 /\ ps[i].availability[1] \notin SlotSet

\* variant: the first pass files a participant under their last choice
FirstPassLastChoice(ps) ==
    [s \in SlotSet |->
        SelectSeq(ps, LAMBDA p : Len(p.availability) > 0
                                 /\ p.availability[Len(p.availability)] = s)]

\* first pass: every participant with a non-empty availability goes to the
\* bucket of availability[0], in input order
FirstPass(ps) ==
    [s \in SlotSet |->
        SelectSeq(ps, LAMBDA p : Len(p.availability) > 0 /\ p.availability[1] = s)]

\* variant: only slots with fewer than 2 first choices are backfilled
NeedsBackfillBelowTwo(group) == Len(group) < 2

\* variant: slots with exactly 3 first choices are backfilled too
NeedsBackfillUpToThree(group) == Len(group) <= 3

\* the test that opens the second pass for a slot
NeedsBackfill(group) == Len(group) < 3

\* variant: the second pass does not ask whether the slot is listed
SecondaryPreferenceUnlisted(group, p, slot) ==
    /\ ~HasId(group, p.id)
    /\ Availability0(p) # slot

\* variant: the second pass only asks whether the slot is listed
SecondaryPreferenceListedOnly(group, p, slot) == slot \in Range(p.availability)

\* the condition under which the second pass pushes a participant
SecondaryPreference(group, p, slot) ==
    /\ ~HasId(group, p.id)
    /\ slot \in Range(p.availability)
    /\ Availability0(p) # slot

\* variant: there is no second pass
BackfillSkipped(group, ps, i, slot) == group

RECURSIVE Backfill(_, _, _, _)
Backfill(group, ps, i, slot) ==
    IF i > Len(ps) THEN group
    ELSE Backfill(IF SecondaryPreference(group, ps[i], slot)
                  THEN Append(group, ps[i]) ELSE group,
                  ps, i + 1, slot)

groupByAvailability(ps) ==
    LET first == FirstPass(ps)
    IN  [s \in SlotSet |->
            IF NeedsBackfill(first[s]) THEN Backfill(first[s], ps, 1, s)
            ELSE first[s]]

(***************************************************************************)
(* groupByLocation                                                         *)
(***************************************************************************)
\* variant: the per-slot lists are never consulted
preferredLocationsGeneralOnly(p, availability) == p.locations

\* variant: an empty per-slot list falls back to the general list
preferredLocationsFallback(p, availability) ==
    LET own == CASE availability = "Weekday Lunch"  -> p.weekdayLunchLocations
                 [] availability = "Weekday Dinner" -> p.weekdayDinnerLocations
                 [] availability = "Weekend Lunch"  -> p.weekendLunchLocations
                 [] availability = "Weekend Dinner" -> p.weekendDinnerLocations
                 [] OTHER -> <<>>
    IN  IF p.useSeparateLocations /\ own # <<>> THEN own ELSE p.locations

preferredLocations(p, availability) ==
    IF p.useSeparateLocations
    THEN CASE availability = "Weekday Lunch"  -> p.weekdayLunchLocations
           [] availability = "Weekday Dinner" -> p.weekdayDinnerLocations
           [] availability = "Weekend Lunch"  -> p.weekendLunchLocations
           [] availability = "Weekend Dinner" -> p.weekendDinnerLocations
           [] OTHER -> <<>>
    ELSE p.locations

\* if (!map[key]) map[key] = []; map[key].push(p)
PushUnder(map, key, p) ==
    IF \E i \in DOMAIN map : map[i].key = key
    THEN [i \in DOMAIN map |->
            IF map[i].key = key
            THEN [key |-> key, members |-> Append(map[i].members, p)]
            ELSE map[i]]
    ELSE Append(map, [key |-> key, members |-> <<p>>])

\* variant: a participant is filed under their first and their last location
RECURSIVE BucketLoopFirstAndLast(_, _, _, _)
BucketLoopFirstAndLast(locationGroups, ps, i, availability) ==
    IF i > Len(ps) THEN locationGroups
    ELSE LET pl == preferredLocations(ps[i], availability)
             first == PushUnder(locationGroups, pl[1], ps[i])
         IN  BucketLoopFirstAndLast(
                 IF Len(pl) = 0 THEN locationGroups
                 ELSE IF pl[Len(pl)] = pl[1] THEN first
                 ELSE PushUnder(first, pl[Len(pl)], ps[i]),
                 ps, i + 1, availability)

RECURSIVE BucketLoop(_, _, _, _)
BucketLoop(locationGroups, ps, i, availability) ==
    IF i > Len(ps) THEN locationGroups
    ELSE LET pl == preferredLocations(ps[i], availability)
         IN  BucketLoop(IF Len(pl) > 0 THEN PushUnder(locationGroups, pl[1], ps[i])
                        ELSE locationGroups,
                        ps, i + 1, availability)

groupByLocation(ps, availability) == BucketLoop(<<>>, ps, 1, availability)

(***************************************************************************)
(* createOptimalGroups                                                     *)
(***************************************************************************)
Level(p) == experienceLevels[p.experienceLevel]

\* variant: an unstable sort, p goes in front of its equals
RECURSIVE InsertBeforeEquals(_, _)
InsertBeforeEquals(sorted, p) ==
    IF sorted = <<>> THEN <<p>>
    ELSE IF Level(sorted[Len(sorted)]) - Level(p) >= 0
         THEN Append(InsertBeforeEquals(SubSeq(sorted, 1, Len(sorted) - 1), p),
                     sorted[Len(sorted)])
         ELSE Append(sorted, p)

\* Array.prototype.sort is stable: p goes behind every element that does not
\* compare greater
RECURSIVE InsertByExperience(_, _)
InsertByExperience(sorted, p) ==
    IF sorted = <<>> THEN <<p>>
    ELSE IF Level(sorted[Len(sorted)]) - Level(p) > 0
         THEN Append(InsertByExperience(SubSeq(sorted, 1, Len(sorted) - 1), p),
                     sorted[Len(sorted)])
         ELSE Append(sorted, p)

RECURSIVE SortByExperience(_)
SortByExperience(ps) ==
    IF ps = <<>> THEN <<>>
    ELSE InsertByExperience(SortByExperience(SubSeq(ps, 1, Len(ps) - 1)), ps[Len(ps)])

RECURSIVE PracticeAreaLoop(_, _, _)
PracticeAreaLoop(map, ps, i) ==
    IF i > Len(ps) THEN map
    ELSE PracticeAreaLoop(PushUnder(map, ps[i].practiceAreas[1], ps[i]), ps, i + 1)

practiceAreaMap(sorted) == PracticeAreaLoop(<<>>, sorted, 1)

\* variant: groups are sized for five
totalGroupsOfFive(n) == (n + 4) \div 5

\* variant: one group more than the whole quotient
totalGroupsPastQuotient(n) == (n \div 4) + 1

\* variant: groups are sized for three
totalGroupsOfThree(n) == (n + 2) \div 3

\* Math.ceil(n / 4)
totalGroups(n) == (n + 3) \div 4

RECURSIVE SmallestScan(_, _, _, _)
SmallestScan(groups, i, smallestIndex, smallestSize) ==
    IF i > Len(groups) THEN smallestIndex
    ELSE IF Len(groups[i]) < smallestSize
         THEN SmallestScan(groups, i + 1, i, Len(groups[i]))
         ELSE SmallestScan(groups, i + 1, smallestIndex, smallestSize)

\* variant: on ties the highest index wins
findSmallestGroupLastOnTies(groups) ==
    CHOOSE i \in DOMAIN groups :
        \A j \in DOMAIN groups :
            \/ Len(groups[i]) < Len(groups[j])
            \/ Len(groups[i]) = Len(groups[j]) /\ j <= i

\* index (from 1) of the group with the fewest members, lowest index on ties
findSmallestGroup(groups) == SmallestScan(groups, 2, 1, Len(groups[1]))

PushToSmallest(groups, p) ==
    [groups EXCEPT ![findSmallestGroup(groups)] = Append(@, p)]

\* variant: the target group is looked up once per practice area
AreaLoopOneTarget(groups, areaParticipants, i) ==
    [groups EXCEPT ![findSmallestGroup(groups)] = @ \o areaParticipants]

RECURSIVE AreaLoop(_, _, _)
AreaLoop(groups, areaParticipants, i) ==
    IF i > Len(areaParticipants) THEN groups
    ELSE AreaLoop(PushToSmallest(groups, areaParticipants[i]), areaParticipants, i + 1)

\* for (const area of practiceAreas) for (const participant of areaParticipants)
RECURSIVE DistributeByArea(_, _, _)
DistributeByArea(groups, map, a) ==
    IF a > Len(map) THEN groups
    ELSE DistributeByArea(AreaLoop(groups, map[a].members, 1), map, a + 1)

\* variant: the set of placed participants is taken before anyone is placed
AlreadyAddedNever(distributed, id) == FALSE

\* allParticipantsAdded.has(id), the set being taken once before the loop
AlreadyAdded(distributed, id) ==
    \E g \in DOMAIN distributed : HasId(distributed[g], id)

RECURSIVE DistributeRemaining(_, _, _, _)
DistributeRemaining(groups, distributed, ps, i) ==
    IF i > Len(ps) THEN groups
    ELSE DistributeRemaining(IF ~AlreadyAdded(distributed, ps[i].id)
                             THEN PushToSmallest(groups, ps[i]) ELSE groups,
                             distributed, ps, i + 1)

\* createOptimalGroups from the sort on: the practice area map, the two
\* distributions and the filter
PlaceSorted(sorted) ==
    LET empty       == [g \in 1..totalGroups(Len(sorted)) |-> <<>>]
        distributed == DistributeByArea(empty, practiceAreaMap(sorted), 1)
        groups      == DistributeRemaining(distributed, distributed, sorted, 1)
    IN  SelectSeq(groups, LAMBDA g : Len(g) > 0)

createOptimalGroups(ps) == PlaceSorted(SortByExperience(ps))

(***************************************************************************)
(* The sort when an experience level is none of the five bands: the lookup *)
(* is undefined, the difference NaN, and the sort takes NaN for +0.  Such  *)
(* a participant compares equal to everyone; when the others are not all   *)
(* of one band the comparator is not consistent and the order in which the *)
(* sort leaves the array is up to the engine.                              *)
(***************************************************************************)
BandKnown(p) == p.experienceLevel \in DOMAIN experienceLevels

\* every arrangement of the elements of ps
Orderings(ps) == {[i \in DOMAIN ps |-> ps[f[i]]] : f \in Permutations(DOMAIN ps)}

SortOutcomes(ps) ==
    IF \A i \in DOMAIN ps : BandKnown(ps[i]) THEN {SortByExperience(ps)}
    ELSE IF \A i, j \in DOMAIN ps :
               (BandKnown(ps[i]) /\ BandKnown(ps[j])) => Level(ps[i]) = Level(ps[j])
         THEN {ps}
         ELSE Orderings(ps)

(***************************************************************************)
(* runMatchingAlgorithm: the three nested loops                            *)
(***************************************************************************)
\* variant: a group is created as finalized
NewMatchGroupFinalized(group, availability, location, cycle) ==
    [participants |-> group, meetingTime |-> availability,
     meetingLocation |-> location, isFinalized |-> TRUE, cycle |-> cycle]

NewMatchGroup(group, availability, location, cycle) ==
    [participants |-> group, meetingTime |-> availability,
     meetingLocation |-> location, isFinalized |-> FALSE, cycle |-> cycle]

RECURSIVE GroupLoop(_, _, _, _, _)
GroupLoop(groups, g, availability, location, cycle) ==
    IF g > Len(groups) THEN <<>>
    ELSE (IF Len(groups[g]) < 2 THEN <<>>
          ELSE <<NewMatchGroup(groups[g], availability, location, cycle)>>)
         \o GroupLoop(groups, g + 1, availability, location, cycle)

\* participant.practiceAreas[0] of a participant without practiceAreas is a
\* TypeError: createOptimalGroups throws in its first loop, after the sort
createOptimalGroupsThrows(ps) ==
    \E i \in DOMAIN ps : "practiceAreas" \notin DOMAIN ps[i]

\* some call of createOptimalGroups of the location loop throws
LocationLoopThrows(locationGroups) ==
    \E l \in DOMAIN locationGroups :
        /\ Len(locationGroups[l].members) >= 2
        /\ createOptimalGroupsThrows(locationGroups[l].members)

\* the groups the location loop emits, up to the call that throws if one does
RECURSIVE LocationLoop(_, _, _, _)
LocationLoop(locationGroups, l, availability, cycle) ==
    IF l > Len(locationGroups) THEN <<>>
    ELSE IF Len(locationGroups[l].members) < 2
    THEN LocationLoop(locationGroups, l + 1, availability, cycle)
    ELSE IF createOptimalGroupsThrows(locationGroups[l].members) THEN <<>>
    ELSE GroupLoop(createOptimalGroups(locationGroups[l].members), 1,
                   availability, locationGroups[l].key, cycle)
         \o LocationLoop(locationGroups, l + 1, availability, cycle)

\* the groups the loops emit, up to the call that throws if one does
RECURSIVE AvailabilityLoop(_, _, _)
AvailabilityLoop(groups, s, cycle) ==
    IF s > Len(SlotOrder) THEN <<>>
    ELSE IF Len(groups[SlotOrder[s]]) < 2 THEN AvailabilityLoop(groups, s + 1, cycle)
    ELSE LocationLoop(groupByLocation(groups[SlotOrder[s]], SlotOrder[s]), 1,
                      SlotOrder[s], cycle)
         \o (IF LocationLoopThrows(groupByLocation(groups[SlotOrder[s]], SlotOrder[s]))
             THEN <<>>
             ELSE AvailabilityLoop(groups, s + 1, cycle))

\* the loops end by a throw of createOptimalGroups
LoopsThrow(groups) ==
    \E s \in DOMAIN SlotOrder :
        /\ Len(groups[SlotOrder[s]]) >= 2
        /\ LocationLoopThrows(groupByLocation(groups[SlotOrder[s]], SlotOrder[s]))

(***************************************************************************)
(* updateParticipantStatuses                                               *)
(***************************************************************************)
RECURSIVE GroupUpdates(_, _)
GroupUpdates(group, i) ==
    IF i > Len(group.participants) THEN <<>>
    ELSE <<[id |-> group.participants[i].id, status |-> "matched",
            matchGroup |-> group.id]>>
         \o GroupUpdates(group, i + 1)

\* variant: the groups are walked from the last to the first
RECURSIVE BatchUpdatesNewestFirst(_, _)
BatchUpdatesNewestFirst(groups, g) ==
    IF g > Len(groups) THEN <<>>
    ELSE BatchUpdatesNewestFirst(groups, g + 1) \o GroupUpdates(groups[g], 1)

RECURSIVE BatchUpdates(_, _)
BatchUpdates(groups, g) ==
    IF g > Len(groups) THEN <<>>
    ELSE GroupUpdates(groups[g], 1) \o BatchUpdates(groups, g + 1)

\* batch.commit(): the queued updates take effect in the order they were queued
RECURSIVE ApplyUpdates(_, _, _)
ApplyUpdates(store, updates, i) ==
    IF i > Len(updates) THEN store
    ELSE ApplyUpdates([store EXCEPT ![updates[i].id] =
                          [status |-> updates[i].status,
                           matchGroup |-> updates[i].matchGroup]],
                      updates, i + 1)

(***************************************************************************)
(* What the caller holds: the pending promise, the returned array, or the  *)
(* Error the catch block constructs.                                       *)
(***************************************************************************)
Awaited == [kind |-> "pending"]

Returned(groups) == [kind |-> "resolved", value |-> groups]

\* throw new Error('Failed to run matching algorithm')
RunError == [kind |-> "rejected", message |-> "Failed to run matching algorithm"]

\* createOptimalGroups is not under way
NothingPlaced ==
    /\ working = <<>>
    /\ queue = <<>>
    /\ placed = <<>>

NoError == "null"

\* no dashboard is mounted
DashboardAtRest ==
    /\ responses = <<>>
    /\ dashCycle = CurrentCycle
    /\ loading = FALSE
    /\ activeTab = "participants"
    /\ mounted = FALSE
    /\ loads = <<>>
    /\ dashGroups = <<>>
    /\ dashObjects = <<>>
    /\ runningMatch = FALSE
    /\ runs = <<>>
    /\ sendingEmails = FALSE
    /\ error = NoError
    /\ toggles = <<>>
    /\ edits = <<>>
    /\ sendQueue = <<>>
    /\ sendPc = "idle"
    /\ sendCycle = CurrentCycle
    /\ clicks = 0

(***************************************************************************)
(* The run as a state machine.  The run is suspended at each await: after  *)
(* every addDoc and after batch.commit.                                    *)
(***************************************************************************)
Init ==
    /\ \E n \in 0..MaxParticipants :
         \E choice \in [1..n -> Profiles] :
            participants = [i \in 1..n |-> WithId(choice[i], i)]
    /\ surveyStore = [i \in DOMAIN participants |->
                        [status |-> "pending", matchGroup |-> NoGroup]]
    /\ groupsStore = <<>>
    /\ pc = "idle"
    /\ availabilityGroups = [s \in SlotSet |-> <<>>]
    /\ plan = <<>>
    /\ matchGroups = <<>>
    /\ batch = <<>>
    /\ storeOps = <<>>
    /\ reported = Awaited
    /\ bucket = <<>>
    /\ built = <<>>
    /\ bucketGroups = <<>>
    /\ NothingPlaced
    /\ DashboardAtRest

\* what the run does once the loops are over: queue the batch and commit it
AfterLoops(groups) ==
    /\ batch' = BatchUpdates(groups, 1)
    /\ pc' = "committing"

\* the last group the loops emit is stored: the next call of
\* createOptimalGroups throws and the catch block rethrows, or the loops are over
LoopsEnd(byAvailability, created) ==
    IF LoopsThrow(byAvailability)
    THEN /\ pc' = "failed"
         /\ reported' = RunError
         /\ batch' = batch
    ELSE /\ AfterLoops(created)
         /\ reported' = reported

\* the run from its entry to its first await
CallRun(runCycle) ==
    /\ pc = "idle"
    /\ IF ClassifyThrows(participants)
       THEN /\ pc' = "failed"
            /\ reported' = RunError
            /\ UNCHANGED <<availabilityGroups, plan, batch>>
       ELSE LET groups == groupByAvailability(participants)
                emitted == AvailabilityLoop(groups, 1, runCycle)
            IN  /\ availabilityGroups' = groups
                /\ plan' = emitted
                /\ IF emitted = <<>> THEN LoopsEnd(groups, <<>>)
                   ELSE pc' = "creating" /\ batch' = batch /\ reported' = reported
    /\ UNCHANGED <<participants, surveyStore, groupsStore, matchGroups, storeOps>>

\* runMatchingAlgorithm called on its own
RunStart ==
    /\ CallRun(CurrentCycle)
    /\ UNCHANGED bucketVars
    /\ UNCHANGED adminVars

\* variant: updateParticipantStatuses is called inside the loop, after the
\* first group that was created
AddDocOkThenBatch ==
    /\ pc = "creating"
    /\ LET docId == Len(groupsStore) + 1
           created == [id |-> docId] @@ plan[Len(matchGroups) + 1]
       IN  /\ groupsStore' = Append(groupsStore, created)
           /\ matchGroups' = Append(matchGroups, created)
           /\ storeOps' = Append(storeOps, [op |-> "addDoc", ok |-> TRUE])
           /\ AfterLoops(matchGroups')
    /\ UNCHANGED <<participants, surveyStore, availabilityGroups, plan, reported>>
    /\ UNCHANGED bucketVars
    /\ UNCHANGED adminVars

\* addDoc resolves: the document exists under a fresh id, the group is pushed
AddDocOk ==
    /\ pc = "creating"
    /\ LET docId == Len(groupsStore) + 1
           created == [id |-> docId] @@ plan[Len(matchGroups) + 1]
       IN  /\ groupsStore' = Append(groupsStore, created)
           /\ matchGroups' = Append(matchGroups, created)
           /\ storeOps' = Append(storeOps, [op |-> "addDoc", ok |-> TRUE])
           /\ IF Len(matchGroups') = Len(plan)
              THEN LoopsEnd(availabilityGroups, matchGroups')
              ELSE pc' = "creating" /\ batch' = batch /\ reported' = reported
    /\ UNCHANGED <<participants, surveyStore, availabilityGroups, plan>>
    /\ UNCHANGED bucketVars
    /\ UNCHANGED adminVars

\* variant: the catch block logs the error and the run returns what it has
AddDocFailSwallowed ==
    /\ pc = "creating"
    /\ pc' = "done"
    /\ reported' = Returned(matchGroups)
    /\ storeOps' = Append(storeOps, [op |-> "addDoc", ok |-> FALSE])
    /\ UNCHANGED <<participants, surveyStore, groupsStore, availabilityGroups,
                   plan, matchGroups, batch>>
    /\ UNCHANGED bucketVars
    /\ UNCHANGED adminVars

\* variant: a rejected addDoc is caught inside the loop and the group is
\* pushed without an id
AddDocFailKeepsGroup ==
    /\ pc = "creating"
    /\ LET unsaved == [id |-> NoGroup] @@ plan[Len(matchGroups) + 1]
       IN  /\ matchGroups' = Append(matchGroups, unsaved)
           /\ storeOps' = Append(storeOps, [op |-> "addDoc", ok |-> FALSE])
           /\ IF Len(matchGroups') = Len(plan) THEN AfterLoops(matchGroups')
              ELSE pc' = "creating" /\ batch' = batch
    /\ UNCHANGED <<participants, surveyStore, groupsStore, availabilityGroups,
                   plan, reported>>
    /\ UNCHANGED bucketVars
    /\ UNCHANGED adminVars

\* addDoc rejects: the catch block rethrows
AddDocFail ==
    /\ pc = "creating"
    /\ pc' = "failed"
    /\ reported' = RunError
    /\ storeOps' = Append(storeOps, [op |-> "addDoc", ok |-> FALSE])
    /\ UNCHANGED <<participants, surveyStore, groupsStore, availabilityGroups,
                   plan, matchGroups, batch>>
    /\ UNCHANGED bucketVars
    /\ UNCHANGED adminVars

\* batch.commit resolves: the run returns matchGroups
CommitOk ==
    /\ pc = "committing"
    /\ surveyStore' = ApplyUpdates(surveyStore, batch, 1)
    /\ pc' = "done"
    /\ reported' = Returned(matchGroups)
    /\ storeOps' = Append(storeOps, [op |-> "commit", ok |-> TRUE])
    /\ UNCHANGED <<participants, groupsStore, availabilityGroups, plan,
                   matchGroups, batch>>
    /\ UNCHANGED bucketVars
    /\ UNCHANGED adminVars

\* batch.commit rejects: nothing of the batch is written, the catch block rethrows
CommitFail ==
    /\ pc = "committing"
    /\ pc' = "failed"
    /\ reported' = RunError
    /\ storeOps' = Append(storeOps, [op |-> "commit", ok |-> FALSE])
    /\ UNCHANGED <<participants, surveyStore, groupsStore, availabilityGroups,
                   plan, matchGroups, batch>>
    /\ UNCHANGED bucketVars
    /\ UNCHANGED adminVars

Next == RunStart \/ AddDocOk \/ AddDocFail \/ CommitOk \/ CommitFail

Spec == Init /\ [][Next]_vars

\* every awaited store operation settles, one way or the other; nothing
\* obliges the administrator to start a run
FairSpec ==
    /\ Init
    /\ [][Next]_vars
    /\ WF_vars(AddDocOk \/ AddDocFail)
    /\ WF_vars(CommitOk \/ CommitFail)

(***************************************************************************)
(* A run over survey answers whose availability labels were not written by *)
(* the survey form: a label that is none of the four, in first or in later *)
(* position, next to well-formed answers.                                  *)
(***************************************************************************)
Submissions ==
    { Answers(<<"Weekday Lunch">>, FALSE, <<"tustin">>,
              <<>>, <<>>, <<>>, <<>>, <<"corp">>, "4-7 years"),
      Answers(<<"Weekday Dinner", "Weekday Lunch">>, FALSE, <<"tustin">>,
              <<>>, <<>>, <<>>, <<>>, <<"lit">>, "0-3 years"),
      Answers(<<"Anytime", "Weekday Lunch">>, FALSE, <<"tustin">>,
              <<>>, <<>>, <<>>, <<>>, <<"corp">>, "0-3 years"),
      Answers(<<"Weekday Lunch", "Anytime">>, FALSE, <<"tustin">>,
              <<>>, <<>>, <<>>, <<>>, <<"fam">>, "8-15 years") }

InitSubmitted ==
    /\ \E n \in 0..MaxParticipants :
         \E choice \in [1..n -> Submissions] :
            participants = [i \in 1..n |-> WithId(choice[i], i)]
    /\ surveyStore = [i \in DOMAIN participants |->
                        [status |-> "pending", matchGroup |-> NoGroup]]
    /\ groupsStore = <<>>
    /\ pc = "idle"
    /\ availabilityGroups = [s \in SlotSet |-> <<>>]
    /\ plan = <<>>
    /\ matchGroups = <<>>
    /\ batch = <<>>
    /\ storeOps = <<>>
    /\ reported = Awaited
    /\ bucket = <<>>
    /\ built = <<>>
    /\ bucketGroups = <<>>
    /\ NothingPlaced
    /\ DashboardAtRest

SpecSubmitted == InitSubmitted /\ [][Next]_vars

(***************************************************************************)
(* One location bucket on its own: the body of the location loop of        *)
(* runMatchingAlgorithm applied to a bucket of any length.  The members    *)
(* differ in what createOptimalGroups reads: experience level, first       *)
(* practice area and id.                                                   *)
(***************************************************************************)
BucketSlot == "Weekday Lunch"

BucketLocation == "tustin"

Colleagues ==
    { Answers(<<BucketSlot>>, FALSE, <<BucketLocation>>, <<>>, <<>>, <<>>, <<>>,
              <<"lit">>, "0-3 years"),
      Answers(<<BucketSlot>>, FALSE, <<BucketLocation>>, <<>>, <<>>, <<>>, <<>>,
              <<"corp">>, "4-7 years"),
      Answers(<<BucketSlot>>, FALSE, <<BucketLocation>>, <<>>, <<>>, <<>>, <<>>,
              <<"fam">>, "0-3 years") }

InitBucket ==
    /\ \E n \in 0..MaxBucket :
         \E choice \in [1..n -> Colleagues] :
            bucket = [i \in 1..n |-> WithId(choice[i], i)]
    /\ built = <<>>
    /\ bucketGroups = <<>>
    /\ NothingPlaced
    /\ pc = "bucket"
    /\ participants = <<>>
    /\ surveyStore = <<>>
    /\ groupsStore = <<>>
    /\ availabilityGroups = [s \in SlotSet |-> <<>>]
    /\ plan = <<>>
    /\ matchGroups = <<>>
    /\ batch = <<>>
    /\ storeOps = <<>>
    /\ reported = Awaited
    /\ DashboardAtRest

\* if (locationParticipants.length < 2) continue
SkipBucket ==
    /\ pc = "bucket"
    /\ Len(bucket) < 2
    /\ pc' = "skipped"
    /\ UNCHANGED <<bucket, built, bucketGroups>>
    /\ UNCHANGED <<participants, surveyStore, groupsStore, availabilityGroups,
                   plan, matchGroups, batch, storeOps, reported>>
    /\ UNCHANGED adminVars
    /\ UNCHANGED <<working, queue, placed>>

\* const groups = createOptimalGroups(locationParticipants); the sort of
\* createOptimalGroups is in place, so the bucket is left in experience order
CreateGroups ==
    /\ pc = "bucket"
    /\ Len(bucket) >= 2
    /\ built' = createOptimalGroups(bucket)
    /\ bucket' = SortByExperience(bucket)
    /\ pc' = "grouped"
    /\ UNCHANGED bucketGroups
    /\ UNCHANGED <<participants, surveyStore, groupsStore, availabilityGroups,
                   plan, matchGroups, batch, storeOps, reported>>
    /\ UNCHANGED adminVars
    /\ UNCHANGED <<working, queue, placed>>

\* for (const group of groups): the match groups the loop hands to addDoc,
\* in its order
BucketPlan == GroupLoop(built, 1, BucketSlot, BucketLocation, CurrentCycle)

\* the addDoc of the next group of the bucket resolves: the document exists
\* under a fresh id and the group is pushed on matchGroups
EmitGroupOk ==
    /\ pc = "grouped"
    /\ Len(bucketGroups) < Len(BucketPlan)
    /\ LET created == [id |-> Len(groupsStore) + 1]
                          @@ BucketPlan[Len(bucketGroups) + 1]
       IN  /\ groupsStore' = Append(groupsStore, created)
           /\ matchGroups' = Append(matchGroups, created)
           /\ bucketGroups' = Append(bucketGroups, created)
           /\ pc' = IF Len(bucketGroups') = Len(BucketPlan) THEN "emitted"
                    ELSE "grouped"
    /\ storeOps' = Append(storeOps, [op |-> "addDoc", ok |-> TRUE])
    /\ UNCHANGED <<bucket, built>>
    /\ UNCHANGED <<participants, surveyStore, availabilityGroups, plan,
                   batch, reported>>
    /\ UNCHANGED adminVars
    /\ UNCHANGED <<working, queue, placed>>

\* it rejects: the catch block rethrows, the groups that follow are not
\* handed over
EmitGroupFail ==
    /\ pc = "grouped"
    /\ Len(bucketGroups) < Len(BucketPlan)
    /\ pc' = "failed"
    /\ reported' = RunError
    /\ storeOps' = Append(storeOps, [op |-> "addDoc", ok |-> FALSE])
    /\ UNCHANGED <<bucket, built, bucketGroups>>
    /\ UNCHANGED <<participants, surveyStore, groupsStore, availabilityGroups,
                   plan, matchGroups, batch>>
    /\ UNCHANGED adminVars
    /\ UNCHANGED <<working, queue, placed>>

NextBucket == SkipBucket \/ CreateGroups \/ EmitGroupOk \/ EmitGroupFail

SpecBucket == InitBucket /\ [][NextBucket]_vars

(***************************************************************************)
(* createOptimalGroups step by step on the same buckets: one step per      *)
(* participant the first distribution places.                              *)
(***************************************************************************)
\* two bands in one practice area, and a second area
Placeables ==
    { Answers(<<BucketSlot>>, FALSE, <<BucketLocation>>, <<>>, <<>>, <<>>, <<>>,
              <<"corp">>, "4-7 years"),
      Answers(<<BucketSlot>>, FALSE, <<BucketLocation>>, <<>>, <<>>, <<>>, <<>>,
              <<"corp">>, "0-3 years"),
      Answers(<<BucketSlot>>, FALSE, <<BucketLocation>>, <<>>, <<>>, <<>>, <<>>,
              <<"lit">>, "0-3 years") }

InitPlacing ==
    /\ \E n \in 0..MaxBucket :
         \E choice \in [1..n -> Placeables] :
            bucket = [i \in 1..n |-> WithId(choice[i], i)]
    /\ built = <<>>
    /\ bucketGroups = <<>>
    /\ NothingPlaced
    /\ pc = "bucket"
    /\ participants = <<>>
    /\ surveyStore = <<>>
    /\ groupsStore = <<>>
    /\ availabilityGroups = [s \in SlotSet |-> <<>>]
    /\ plan = <<>>
    /\ matchGroups = <<>>
    /\ batch = <<>>
    /\ storeOps = <<>>
    /\ reported = Awaited
    /\ DashboardAtRest

\* the members of the practice area map, area after area
RECURSIVE AreaQueue(_, _)
AreaQueue(map, a) ==
    IF a > Len(map) THEN <<>>
    ELSE map[a].members \o AreaQueue(map, a + 1)

\* the sort (in place), the practice area map and the empty groups
StartPlacing ==
    /\ pc = "bucket"
    /\ Len(bucket) >= 2
    /\ bucket' = SortByExperience(bucket)
    /\ queue' = AreaQueue(practiceAreaMap(SortByExperience(bucket)), 1)
    /\ working' = [g \in 1..totalGroups(Len(bucket)) |-> <<>>]
    /\ placed' = <<>>
    /\ pc' = "placing"
    /\ UNCHANGED <<built, bucketGroups>>
    /\ UNCHANGED runVarsButPc
    /\ UNCHANGED adminVars

\* groups[findSmallestGroup()].push(participant)
PlaceNext ==
    /\ pc = "placing"
    /\ queue # <<>>
    /\ working' = PushToSmallest(working, Head(queue))
    /\ placed' = Append(placed, Head(queue))
    /\ queue' = Tail(queue)
    /\ UNCHANGED <<bucket, built, bucketGroups>>
    /\ UNCHANGED runVars
    /\ UNCHANGED adminVars

\* the loop over those not yet added, and the filter of empty groups
FinishGroups ==
    /\ pc = "placing"
    /\ queue = <<>>
    /\ built' = SelectSeq(DistributeRemaining(working, working, bucket, 1),
                          LAMBDA g : Len(g) > 0)
    /\ pc' = "grouped"
    /\ UNCHANGED <<bucket, bucketGroups, working, queue, placed>>
    /\ UNCHANGED runVarsButPc
    /\ UNCHANGED adminVars

NextPlacing ==
    \/ SkipBucket \/ StartPlacing \/ PlaceNext \/ FinishGroups
    \/ EmitGroupOk \/ EmitGroupFail

SpecPlacing == InitPlacing /\ [][NextPlacing]_vars

(***************************************************************************)
(* The same for a bucket whose experience levels are free text: nothing    *)
(* between the survey form and createOptimalGroups checks them.            *)
(***************************************************************************)
UncheckedColleagues ==
    Colleagues \cup
    { Answers(<<BucketSlot>>, FALSE, <<BucketLocation>>, <<>>, <<>>, <<>>, <<>>,
              <<"corp">>, "Partner") }

InitUnchecked ==
    /\ \E n \in 0..MaxUncheckedBucket :
         \E choice \in [1..n -> UncheckedColleagues] :
            bucket = [i \in 1..n |-> WithId(choice[i], i)]
    /\ built = <<>>
    /\ bucketGroups = <<>>
    /\ NothingPlaced
    /\ pc = "bucket"
    /\ participants = <<>>
    /\ surveyStore = <<>>
    /\ groupsStore = <<>>
    /\ availabilityGroups = [s \in SlotSet |-> <<>>]
    /\ plan = <<>>
    /\ matchGroups = <<>>
    /\ batch = <<>>
    /\ storeOps = <<>>
    /\ reported = Awaited
    /\ DashboardAtRest

\* const groups = createOptimalGroups(locationParticipants), whatever the
\* experience levels are
CreateGroupsUnchecked ==
    /\ pc = "bucket"
    /\ Len(bucket) >= 2
    /\ \E sorted \in SortOutcomes(bucket) :
          /\ bucket' = sorted
          /\ built' = PlaceSorted(sorted)
    /\ pc' = "grouped"
    /\ UNCHANGED bucketGroups
    /\ UNCHANGED <<participants, surveyStore, groupsStore, availabilityGroups,
                   plan, matchGroups, batch, storeOps, reported>>
    /\ UNCHANGED adminVars
    /\ UNCHANGED <<working, queue, placed>>

NextUnchecked ==
    \/ SkipBucket \/ CreateGroupsUnchecked \/ EmitGroupOk \/ EmitGroupFail

SpecUnchecked == InitUnchecked /\ [][NextUnchecked]_vars

(***************************************************************************)
(* The admin dashboard (AdminDashboard.tsx): loadParticipants,             *)
(* handleRunMatching, toggleGroupFinalization, the two selects of a group  *)
(* card and handleSendEmails over the same store, and the two writers of   *)
(* 'survey-responses': the survey form and submitSurveyResponse.           *)
(* The dashboard holds group objects; dashObjects is the heap of those it  *)
(* has created and dashGroups, like every array of groups a handler has    *)
(* copied, is a sequence of references into it, so an assignment to an     *)
(* object's field shows in every array that holds the object.  What        *)
(* follows an await runs to its end before any other handler or            *)
(* settlement; the store operations that are awaited at one time settle in *)
(* any order.  Every call of handleRunMatching that has not returned has   *)
(* its run in runs, whatever their number.                                 *)
(* A control can be used while it is rendered: the cycle select and the    *)
(* tab buttons always, the content of the active tab while loading is      *)
(* false.  When the content of a tab throws while it is rendered the       *)
(* component is unmounted: no control can be used any more, the handlers   *)
(* in flight go on with their store operations and their set-state calls   *)
(* have no effect.                                                         *)
(***************************************************************************)
LoadFailedMessage == "Failed to load participants data. Please try again."

RunFailedMessage == "Failed to run matching algorithm. Please try again."

ToggleFailedMessage == "Failed to update group status."

SendFailedMessage == "Failed to send emails. Please try again."

NoFinalizedMessage == "No finalized match groups to send emails to!"

\* the names of the cycles the select offers
Cycles == {"March 2025", "June 2025"}

\* the tabs
Tabs == {"participants", "matches", "emails"}

\* the cycle SurveyForm writes on every submission
SurveyCycle == "March 2025"

\* values chosen in the Time and in the Location select of a group card
TimeChoices == {""}

LocationChoices == {"Tustin"}

\* the documents of 'survey-responses' when the dashboard is mounted have
\* the fields of its type Participant; the handlers read none of the
\* answers, so those with one list of locations and a slot to meet in will do
Respondents ==
    {a \in Profiles :
        ~a.useSeparateLocations /\ a.availability # <<>> /\ a.locations # <<>>}

\* what the form hands to onSubmit: the fields of surveySchema, and no other
FormData ==
    {[availability |-> a.availability,
      useSeparateLocations |-> a.useSeparateLocations,
      locations |-> a.locations,
      weekdayLunchLocations |-> a.weekdayLunchLocations,
      weekdayDinnerLocations |-> a.weekdayDinnerLocations,
      weekendLunchLocations |-> a.weekendLunchLocations,
      weekendDinnerLocations |-> a.weekendDinnerLocations] : a \in Respondents}

\* what submitSurveyResponse is handed: a SurveyResponse, which has none of
\* the fields of the form and no cycle
SurveyResponseData ==
    {[availableDays |-> <<"Monday">>, workLocation |-> "Remote"]}

\* neither writer writes a status
NoStatus == "undefined"

\* the status and the group of a document as a writer has left it
Submitted == [status |-> NoStatus, matchGroup |-> NoGroup]

\* the documents of 'match-groups' a completed run on the surveys leaves
StoredGroups(surveys) ==
    LET emitted == AvailabilityLoop(groupByAvailability(surveys), 1, SurveyCycle)
    IN  [k \in DOMAIN emitted |-> [id |-> k] @@ emitted[k]]

\* the updateDoc calls handleSendEmails makes for the members of a group
RECURSIVE EmailUpdates(_, _, _)
EmailUpdates(groupId, members, i) ==
    IF i > Len(members) THEN <<>>
    ELSE <<[id |-> members[i].id, status |-> "emailed", matchGroup |-> groupId]>>
         \o EmailUpdates(groupId, members, i + 1)

\* the documents of 'match-groups' once every group has been finalized
Finalized(groups) ==
    LET stored == groups
    IN  [k \in 1..Len(stored) |-> [stored[k] EXCEPT !.isFinalized = TRUE]]

\* the updateDoc calls of a handleSendEmails over these groups
RECURSIVE SentUpdates(_, _)
SentUpdates(groups, g) ==
    IF g > Len(groups) THEN <<>>
    ELSE EmailUpdates(groups[g].id, groups[g].participants, 1)
         \o SentUpdates(groups, g + 1)

\* the component as it is mounted: the state of lines 45-53 and the first
\* call of loadParticipants, over a store that holds surveys with the same
\* answers and either no group, or what a completed run on the surveys has
\* left, or what is left once its groups were finalized and the emails sent
InitAdmin ==
    /\ \E n \in 0..MaxAdminParticipants :
         \E a \in Respondents :
            responses = [i \in 1..n |-> [cycle |-> SurveyCycle] @@ WithId(a, i)]
    /\ \/ /\ groupsStore = <<>>
          /\ surveyStore = [i \in DOMAIN responses |-> Submitted]
       \/ /\ groupsStore = StoredGroups(responses)
          /\ groupsStore # <<>>
          /\ surveyStore = ApplyUpdates([i \in DOMAIN responses |-> Submitted],
                                        BatchUpdates(groupsStore, 1), 1)
       \/ /\ groupsStore = Finalized(StoredGroups(responses))
          /\ groupsStore # <<>>
          /\ surveyStore = ApplyUpdates([i \in DOMAIN responses |-> Submitted],
                                        SentUpdates(groupsStore, 1), 1)
    /\ participants = <<>>
    /\ pc = "idle"
    /\ availabilityGroups = [s \in SlotSet |-> <<>>]
    /\ plan = <<>>
    /\ matchGroups = <<>>
    /\ batch = <<>>
    /\ storeOps = <<>>
    /\ reported = Awaited
    /\ bucket = <<>>
    /\ built = <<>>
    /\ bucketGroups = <<>>
    /\ NothingPlaced
    /\ dashCycle = "March 2025"
    /\ loading = TRUE
    /\ activeTab = "participants"
    /\ mounted = TRUE
    /\ loads = <<[cycle |-> "March 2025", stage |-> "surveys"]>>
    /\ dashGroups = <<>>
    /\ dashObjects = <<>>
    /\ runningMatch = FALSE
    /\ runs = <<>>
    /\ sendingEmails = FALSE
    /\ error = NoError
    /\ toggles = <<>>
    /\ edits = <<>>
    /\ sendQueue = <<>>
    /\ sendPc = "idle"
    /\ sendCycle = "March 2025"
    /\ clicks = 0

\* no continuation of a handleRunMatching is due
Settled == \A r \in DOMAIN runs : runs[r].pc \notin {"done", "failed"}

\* calls without the t-th of them
Without(calls, t) == SubSeq(calls, 1, t - 1) \o SubSeq(calls, t + 1, Len(calls))

\* a set-state call: it has no effect on a component that is unmounted
SetState(value, held) == IF mounted THEN value ELSE held

\* the content of the active tab is rendered without an exception: the
\* table of the participants tab reads practiceAreas.slice of every
\* participant (line 314), a group card practiceAreas[0] of every member
\* (line 454)
Renders ==
    \/ loading
    \/ activeTab = "emails"
    \/ /\ activeTab = "participants"
       /\ \A i \in DOMAIN participants : "practiceAreas" \in DOMAIN participants[i]
    \/ /\ activeTab = "matches"
       /\ \A k \in DOMAIN dashGroups :
             \A member \in Range(groupsStore[dashObjects[dashGroups[k]].id].participants) :
                 "practiceAreas" \in DOMAIN member

\* query(surveyRef, where('cycle', '==', c)) when it is answered
SurveysOf(c) ==
    SelectSeq(responses, LAMBDA d : "cycle" \in DOMAIN d /\ d.cycle = c)

\* query(matchesRef, where('cycle', '==', c)) when it is answered
GroupsIn(c) == SelectSeq(groupsStore, LAMBDA g : g.cycle = c)

\* the object the dashboard holds for a group: what a handler reads or
\* writes of it
GroupObject(g) ==
    [id |-> g.id, isFinalized |-> g.isFinalized,
     meetingTime |-> g.meetingTime, meetingLocation |-> g.meetingLocation]

Objects(groups) == [k \in DOMAIN groups |-> GroupObject(groups[k])]

\* references to n objects appended to the heap
NewRefs(n) == [k \in 1..n |-> Len(dashObjects) + k]

\* the objects an array of the dashboard or of a toggle in flight refers to
Referenced(groups, calls) ==
    Range(groups) \cup UNION {Range(calls[t].updatedGroups) : t \in DOMAIN calls}

\* the place of a referenced object among the referenced ones
Rank(live, object) == Cardinality({o \in live : o <= object})

Moved(refs, live) == [k \in DOMAIN refs |-> Rank(live, refs[k])]

\* the dashboard holds the groups and the calls over the objects: an object
\* that none of them refers to is gone, the others keep their order
Hold(objects, groups, calls) ==
    LET live == Referenced(groups, calls)
    IN  /\ dashObjects' = [n \in 1..Cardinality(live) |->
                              objects[CHOOSE o \in live : Rank(live, o) = n]]
        /\ dashGroups' = Moved(groups, live)
        /\ toggles' = [t \in DOMAIN calls |->
                          [calls[t] EXCEPT !.updatedGroups = Moved(@, live)]]

\* the survey form of a new respondent: addDoc to 'survey-responses'; the
\* document has the fields of the form, without practiceAreas and
\* experienceLevel, and the cycle
SubmitSurvey ==
    /\ Settled
    /\ Len(responses) < MaxAdminParticipants
    /\ clicks < MaxClicks
    /\ \E data \in FormData :
          responses' = Append(responses,
                              [id |-> Len(responses) + 1, cycle |-> SurveyCycle]
                              @@ data)
    /\ surveyStore' = Append(surveyStore, Submitted)
    /\ clicks' = clicks + 1
    /\ UNCHANGED <<participants, groupsStore, pc, availabilityGroups, plan,
                   matchGroups, batch, storeOps, reported>>
    /\ UNCHANGED <<dashCycle, loading, activeTab, mounted, loads, dashGroups,
                   dashObjects, runningMatch, runs, sendingEmails, error, toggles,
                   edits, sendQueue, sendPc, sendCycle>>
    /\ UNCHANGED bucketVars

\* submitSurveyResponse: addDoc to 'survey-responses' of the data it is
\* given; the document has no cycle.  When the addDoc rejects the function
\* rethrows and nothing is stored.
submitSurveyResponse ==
    /\ Settled
    /\ Len(responses) < MaxAdminParticipants
    /\ clicks < MaxClicks
    /\ \E data \in SurveyResponseData :
          responses' = Append(responses, [id |-> Len(responses) + 1] @@ data)
    /\ surveyStore' = Append(surveyStore, Submitted)
    /\ clicks' = clicks + 1
    /\ UNCHANGED <<participants, groupsStore, pc, availabilityGroups, plan,
                   matchGroups, batch, storeOps, reported>>
    /\ UNCHANGED <<dashCycle, loading, activeTab, mounted, loads, dashGroups,
                   dashObjects, runningMatch, runs, sendingEmails, error, toggles,
                   edits, sendQueue, sendPc, sendCycle>>
    /\ UNCHANGED bucketVars

\* the survey form of a respondent who has submitted in the cycle: updateDoc
\* of the document with the new answers, its other fields stay
ResubmitSurvey ==
    /\ Settled
    /\ clicks < MaxClicks
    /\ \E i \in DOMAIN responses :
          \E data \in FormData :
              /\ "cycle" \in DOMAIN responses[i]
              /\ responses[i].cycle = SurveyCycle
              /\ (data @@ responses[i]) # responses[i]
              /\ responses' = [responses EXCEPT ![i] = data @@ responses[i]]
    /\ clicks' = clicks + 1
    /\ UNCHANGED <<dashCycle, loading, activeTab, mounted, loads, dashGroups,
                   dashObjects, runningMatch, runs, sendingEmails, error, toggles,
                   edits, sendQueue, sendPc, sendCycle>>
    /\ UNCHANGED runVars
    /\ UNCHANGED bucketVars

\* the cycle select: setCycle, and the effect calls loadParticipants, which
\* runs to its first getDocs
SetCycle ==
    /\ mounted
    /\ Settled
    /\ clicks < MaxClicks
    /\ \E c \in Cycles \ {dashCycle} :
          /\ dashCycle' = c
          /\ loads' = Append(loads, [cycle |-> c, stage |-> "surveys"])
    /\ loading' = TRUE
    /\ error' = NoError
    /\ clicks' = clicks + 1
    /\ UNCHANGED <<responses, activeTab, mounted, dashGroups, dashObjects,
                   runningMatch, runs, sendingEmails, toggles, edits, sendQueue,
                   sendPc, sendCycle>>
    /\ UNCHANGED runVars
    /\ UNCHANGED bucketVars

\* a tab button: setActiveTab, and the content of the tab is rendered
SetActiveTab ==
    /\ mounted
    /\ Settled
    /\ \E tab \in Tabs \ {activeTab} : activeTab' = tab
    /\ UNCHANGED <<responses, dashCycle, loading, loads, dashGroups, dashObjects,
                   runningMatch, runs, sendingEmails, error, toggles, edits,
                   sendQueue, sendPc, sendCycle, clicks>>
    /\ UNCHANGED runVars
    /\ UNCHANGED bucketVars
    /\ mounted' = Renders'

\* the first getDocs of a loadParticipants resolves: setParticipants
LoadSurveysOk ==
    /\ Settled
    /\ \E l \in DOMAIN loads :
          /\ loads[l].stage = "surveys"
          /\ participants' = SetState(SurveysOf(loads[l].cycle), participants)
          /\ loads' = [loads EXCEPT ![l].stage = "groups"]
    /\ UNCHANGED <<surveyStore, groupsStore, pc, availabilityGroups, plan,
                   matchGroups, batch, storeOps, reported>>
    /\ UNCHANGED <<dashCycle, responses, loading, activeTab, dashGroups,
                   dashObjects, runningMatch, runs, sendingEmails, error, toggles,
                   edits, sendQueue, sendPc, sendCycle, clicks>>
    /\ UNCHANGED bucketVars
    /\ mounted' = (mounted /\ Renders')

\* its second getDocs resolves: setMatchGroups of objects made from the
\* documents, then setLoading(false)
LoadGroupsOk ==
    /\ Settled
    /\ \E l \in DOMAIN loads :
          /\ loads[l].stage = "groups"
          /\ IF mounted
             THEN Hold(dashObjects \o Objects(GroupsIn(loads[l].cycle)),
                       NewRefs(Len(GroupsIn(loads[l].cycle))), toggles)
             ELSE UNCHANGED <<dashGroups, dashObjects, toggles>>
          /\ loads' = Without(loads, l)
    /\ loading' = SetState(FALSE, loading)
    /\ UNCHANGED <<dashCycle, responses, activeTab, runningMatch, runs,
                   sendingEmails, error, edits, sendQueue, sendPc, sendCycle, clicks>>
    /\ UNCHANGED runVars
    /\ UNCHANGED bucketVars
    /\ mounted' = (mounted /\ Renders')

\* either getDocs rejects: setError, then setLoading(false)
LoadFail ==
    /\ Settled
    /\ \E l \in DOMAIN loads : loads' = Without(loads, l)
    /\ error' = SetState(LoadFailedMessage, error)
    /\ loading' = SetState(FALSE, loading)
    /\ UNCHANGED <<dashCycle, responses, activeTab, dashGroups, dashObjects,
                   runningMatch, runs, sendingEmails, toggles, edits, sendQueue,
                   sendPc, sendCycle, clicks>>
    /\ UNCHANGED runVars
    /\ UNCHANGED bucketVars
    /\ mounted' = (mounted /\ Renders')

\* the run when its loops are over: the next call of createOptimalGroups
\* throws and the catch block rethrows, or the batch is queued and committed
LoopsEnded(run) ==
    IF LoopsThrow(run.availabilityGroups)
    THEN [run EXCEPT !.pc = "failed", !.reported = RunError]
    ELSE [run EXCEPT !.pc = "committing",
                     !.batch = BatchUpdates(run.matchGroups, 1)]

\* runMatchingAlgorithm(ps, runCycle) from its entry to its first await
StartedRun(ps, runCycle) ==
    IF ClassifyThrows(ps)
    THEN [pc |-> "failed", availabilityGroups |-> [s \in SlotSet |-> <<>>],
          plan |-> <<>>, matchGroups |-> <<>>, batch |-> <<>>,
          reported |-> RunError]
    ELSE LET groups == groupByAvailability(ps)
             emitted == AvailabilityLoop(groups, 1, runCycle)
             entered == [pc |-> "creating", availabilityGroups |-> groups,
                         plan |-> emitted, matchGroups |-> <<>>, batch |-> <<>>,
                         reported |-> Awaited]
         IN  IF emitted = <<>> THEN LoopsEnded(entered) ELSE entered

\* variant: the button is disabled only for want of participants
HandleRunMatchingNotDisabled ==
    /\ mounted
    /\ Settled
    /\ ~loading
    /\ activeTab = "participants"
    /\ Len(participants) >= 2
    /\ clicks < MaxClicks
    /\ runs' = Append(runs, StartedRun(participants, dashCycle))
    /\ runningMatch' = TRUE
    /\ error' = NoError
    /\ clicks' = clicks + 1
    /\ UNCHANGED <<dashCycle, responses, loading, activeTab, mounted, loads,
                   dashGroups, dashObjects, sendingEmails, toggles, edits,
                   sendQueue, sendPc, sendCycle>>
    /\ UNCHANGED runVars
    /\ UNCHANGED bucketVars

\* the Run button of the participants tab,
\* disabled={runningMatch || participants.length < 2}: handleRunMatching to
\* the first await of the run it calls
HandleRunMatching ==
    /\ mounted
    /\ Settled
    /\ ~loading
    /\ activeTab = "participants"
    /\ ~runningMatch
    /\ Len(participants) >= 2
    /\ clicks < MaxClicks
    /\ runs' = Append(runs, StartedRun(participants, dashCycle))
    /\ runningMatch' = TRUE
    /\ error' = NoError
    /\ clicks' = clicks + 1
    /\ UNCHANGED <<dashCycle, responses, loading, activeTab, mounted, loads,
                   dashGroups, dashObjects, sendingEmails, toggles, edits,
                   sendQueue, sendPc, sendCycle>>
    /\ UNCHANGED runVars
    /\ UNCHANGED bucketVars

\* variant: a group that is already stored with the same slot, location and
\* members is not stored again, its record is reused
RunAddDocOkReusesRecord ==
    /\ Settled
    /\ \E r \in DOMAIN runs :
          /\ runs[r].pc = "creating"
          /\ LET wanted == runs[r].plan[Len(runs[r].matchGroups) + 1]
                 same == {g \in DOMAIN groupsStore :
                             /\ groupsStore[g].participants = wanted.participants
                             /\ groupsStore[g].meetingTime = wanted.meetingTime
                             /\ groupsStore[g].meetingLocation = wanted.meetingLocation
                             /\ groupsStore[g].cycle = wanted.cycle}
                 created == IF same = {} THEN [id |-> Len(groupsStore) + 1] @@ wanted
                            ELSE groupsStore[CHOOSE g \in same : TRUE]
                 pushed == [runs[r] EXCEPT !.matchGroups = Append(@, created)]
             IN  /\ groupsStore' = IF same = {} THEN Append(groupsStore, created)
                                   ELSE groupsStore
                 /\ runs' = [runs EXCEPT ![r] =
                               IF Len(pushed.matchGroups) = Len(pushed.plan)
                               THEN LoopsEnded(pushed) ELSE pushed]
    /\ UNCHANGED <<participants, surveyStore, pc, availabilityGroups, plan,
                   matchGroups, batch, storeOps, reported>>
    /\ UNCHANGED <<dashCycle, responses, loading, activeTab, mounted, loads,
                   dashGroups, dashObjects, runningMatch, sendingEmails, error,
                   toggles, edits, sendQueue, sendPc, sendCycle, clicks>>
    /\ UNCHANGED bucketVars

\* the addDoc a run awaits resolves: the document exists under a fresh id,
\* the group is pushed
RunAddDocOk ==
    /\ Settled
    /\ \E r \in DOMAIN runs :
          /\ runs[r].pc = "creating"
          /\ LET created == [id |-> Len(groupsStore) + 1]
                                @@ runs[r].plan[Len(runs[r].matchGroups) + 1]
                 pushed == [runs[r] EXCEPT !.matchGroups = Append(@, created)]
             IN  /\ groupsStore' = Append(groupsStore, created)
                 /\ runs' = [runs EXCEPT ![r] =
                               IF Len(pushed.matchGroups) = Len(pushed.plan)
                               THEN LoopsEnded(pushed) ELSE pushed]
    /\ UNCHANGED <<participants, surveyStore, pc, availabilityGroups, plan,
                   matchGroups, batch, storeOps, reported>>
    /\ UNCHANGED <<dashCycle, responses, loading, activeTab, mounted, loads,
                   dashGroups, dashObjects, runningMatch, sendingEmails, error,
                   toggles, edits, sendQueue, sendPc, sendCycle, clicks>>
    /\ UNCHANGED bucketVars

\* it rejects: the catch block of the run rethrows
RunAddDocFail ==
    /\ Settled
    /\ \E r \in DOMAIN runs :
          /\ runs[r].pc = "creating"
          /\ runs' = [runs EXCEPT ![r].pc = "failed", ![r].reported = RunError]
    /\ UNCHANGED <<dashCycle, responses, loading, activeTab, mounted, loads,
                   dashGroups, dashObjects, runningMatch, sendingEmails, error,
                   toggles, edits, sendQueue, sendPc, sendCycle, clicks>>
    /\ UNCHANGED runVars
    /\ UNCHANGED bucketVars

\* the batch.commit a run awaits resolves: the run returns its matchGroups
RunCommitOk ==
    /\ Settled
    /\ \E r \in DOMAIN runs :
          /\ runs[r].pc = "committing"
          /\ surveyStore' = ApplyUpdates(surveyStore, runs[r].batch, 1)
          /\ runs' = [runs EXCEPT ![r].pc = "done",
                                  ![r].reported = Returned(runs[r].matchGroups)]
    /\ UNCHANGED <<participants, groupsStore, pc, availabilityGroups, plan,
                   matchGroups, batch, storeOps, reported>>
    /\ UNCHANGED <<dashCycle, responses, loading, activeTab, mounted, loads,
                   dashGroups, dashObjects, runningMatch, sendingEmails, error,
                   toggles, edits, sendQueue, sendPc, sendCycle, clicks>>
    /\ UNCHANGED bucketVars

\* it rejects: no record is changed, the catch block of the run rethrows
RunCommitFail ==
    /\ Settled
    /\ \E r \in DOMAIN runs :
          /\ runs[r].pc = "committing"
          /\ runs' = [runs EXCEPT ![r].pc = "failed", ![r].reported = RunError]
    /\ UNCHANGED <<dashCycle, responses, loading, activeTab, mounted, loads,
                   dashGroups, dashObjects, runningMatch, sendingEmails, error,
                   toggles, edits, sendQueue, sendPc, sendCycle, clicks>>
    /\ UNCHANGED runVars
    /\ UNCHANGED bucketVars

\* handleRunMatching after its await: setMatchGroups(newMatchGroups) and
\* setActiveTab('matches'), or setError; then setRunningMatch(false)
RunSettled ==
    /\ \E r \in DOMAIN runs :
          /\ runs[r].pc \in {"done", "failed"}
          /\ runs' = Without(runs, r)
          /\ IF mounted /\ runs[r].reported.kind = "resolved"
             THEN /\ Hold(dashObjects \o Objects(runs[r].reported.value),
                          NewRefs(Len(runs[r].reported.value)), toggles)
                  /\ activeTab' = "matches"
                  /\ error' = error
             ELSE /\ error' = SetState(RunFailedMessage, error)
                  /\ UNCHANGED <<dashGroups, dashObjects, toggles, activeTab>>
    /\ runningMatch' = SetState(FALSE, runningMatch)
    /\ UNCHANGED <<dashCycle, responses, loading, loads, sendingEmails, edits,
                   sendQueue, sendPc, sendCycle, clicks>>
    /\ UNCHANGED runVars
    /\ UNCHANGED bucketVars
    /\ mounted' = (mounted /\ Renders')

\* the Finalize button of a group card of the matches tab:
\* toggleGroupFinalization up to its await, the object is changed in place
ToggleClick ==
    /\ mounted
    /\ Settled
    /\ ~loading
    /\ activeTab = "matches"
    /\ clicks < MaxClicks
    /\ \E k \in DOMAIN dashGroups :
          LET object == dashGroups[k]
              flipped == ~dashObjects[object].isFinalized
          IN  /\ dashObjects' = [dashObjects EXCEPT ![object].isFinalized = flipped]
              /\ toggles' = Append(toggles, [groupId |-> dashObjects[object].id,
                                             isFinalized |-> flipped,
                                             updatedGroups |-> dashGroups])
    /\ clicks' = clicks + 1
    /\ UNCHANGED <<dashCycle, responses, loading, activeTab, mounted, loads,
                   dashGroups, runningMatch, runs, sendingEmails, error, edits,
                   sendQueue, sendPc, sendCycle>>
    /\ UNCHANGED runVars
    /\ UNCHANGED bucketVars

\* its updateDoc resolves: the document has the value, setMatchGroups(updatedGroups)
ToggleOk ==
    /\ Settled
    /\ \E t \in DOMAIN toggles :
          /\ groupsStore' = [groupsStore EXCEPT
                                ![toggles[t].groupId].isFinalized = toggles[t].isFinalized]
          /\ Hold(dashObjects, SetState(toggles[t].updatedGroups, dashGroups),
                  Without(toggles, t))
    /\ UNCHANGED <<dashCycle, responses, loading, activeTab, loads, runningMatch,
                   runs, sendingEmails, error, edits, sendQueue, sendPc,
                   sendCycle, clicks>>
    /\ UNCHANGED <<participants, surveyStore, pc, availabilityGroups, plan,
                   matchGroups, batch, storeOps, reported>>
    /\ UNCHANGED bucketVars
    /\ mounted' = (mounted /\ Renders')

\* its updateDoc rejects: setError
ToggleFail ==
    /\ Settled
    /\ \E t \in DOMAIN toggles : Hold(dashObjects, dashGroups, Without(toggles, t))
    /\ error' = SetState(ToggleFailedMessage, error)
    /\ UNCHANGED <<dashCycle, responses, loading, activeTab, mounted, loads,
                   runningMatch, runs, sendingEmails, edits, sendQueue, sendPc,
                   sendCycle, clicks>>
    /\ UNCHANGED runVars
    /\ UNCHANGED bucketVars

\* the Time select of a group card up to its await: the object is changed in
\* place, setMatchGroups of a copy of the array
MeetingTimeChange ==
    /\ mounted
    /\ Settled
    /\ ~loading
    /\ activeTab = "matches"
    /\ clicks < MaxClicks
    /\ \E k \in DOMAIN dashGroups :
          \E value \in TimeChoices \ {dashObjects[dashGroups[k]].meetingTime} :
              /\ dashObjects' = [dashObjects EXCEPT ![dashGroups[k]].meetingTime = value]
              /\ edits' = Append(edits, [groupId |-> dashObjects[dashGroups[k]].id,
                                         field |-> "meetingTime", value |-> value])
    /\ clicks' = clicks + 1
    /\ UNCHANGED <<dashCycle, responses, loading, activeTab, mounted, loads,
                   dashGroups, runningMatch, runs, sendingEmails, error, toggles,
                   sendQueue, sendPc, sendCycle>>
    /\ UNCHANGED runVars
    /\ UNCHANGED bucketVars

\* the Location select of a group card, likewise
MeetingLocationChange ==
    /\ mounted
    /\ Settled
    /\ ~loading
    /\ activeTab = "matches"
    /\ clicks < MaxClicks
    /\ \E k \in DOMAIN dashGroups :
          \E value \in LocationChoices \ {dashObjects[dashGroups[k]].meetingLocation} :
              /\ dashObjects' =
                    [dashObjects EXCEPT ![dashGroups[k]].meetingLocation = value]
              /\ edits' = Append(edits, [groupId |-> dashObjects[dashGroups[k]].id,
                                         field |-> "meetingLocation", value |-> value])
    /\ clicks' = clicks + 1
    /\ UNCHANGED <<dashCycle, responses, loading, activeTab, mounted, loads,
                   dashGroups, runningMatch, runs, sendingEmails, error, toggles,
                   sendQueue, sendPc, sendCycle>>
    /\ UNCHANGED runVars
    /\ UNCHANGED bucketVars

\* the updateDoc of a select resolves: the document has the value
MeetingWriteOk ==
    /\ Settled
    /\ \E e \in DOMAIN edits :
          /\ groupsStore' =
                IF edits[e].field = "meetingTime"
                THEN [groupsStore EXCEPT ![edits[e].groupId].meetingTime = edits[e].value]
                ELSE [groupsStore EXCEPT
                         ![edits[e].groupId].meetingLocation = edits[e].value]
          /\ edits' = Without(edits, e)
    /\ UNCHANGED <<dashCycle, responses, loading, activeTab, mounted, loads,
                   dashGroups, dashObjects, runningMatch, runs, sendingEmails,
                   error, toggles, sendQueue, sendPc, sendCycle, clicks>>
    /\ UNCHANGED <<participants, surveyStore, pc, availabilityGroups, plan,
                   matchGroups, batch, storeOps, reported>>
    /\ UNCHANGED bucketVars

\* it rejects: the handler has no catch, nothing is set
MeetingWriteFail ==
    /\ Settled
    /\ \E e \in DOMAIN edits : edits' = Without(edits, e)
    /\ UNCHANGED <<dashCycle, responses, loading, activeTab, mounted, loads,
                   dashGroups, dashObjects, runningMatch, runs, sendingEmails,
                   error, toggles, sendQueue, sendPc, sendCycle, clicks>>
    /\ UNCHANGED runVars
    /\ UNCHANGED bucketVars

\* the updateDoc calls of handleSendEmails, in the order of its two loops
RECURSIVE SendUpdates(_, _)
SendUpdates(finalized, g) ==
    IF g > Len(finalized) THEN <<>>
    ELSE EmailUpdates(dashObjects[finalized[g]].id,
                      groupsStore[dashObjects[finalized[g]].id].participants, 1)
         \o SendUpdates(finalized, g + 1)

\* matchGroups.filter(group => group.isFinalized)
finalizedGroups == SelectSeq(dashGroups, LAMBDA object : dashObjects[object].isFinalized)

\* handleSendEmails from its entry to its first await, or to its return when
\* no group is finalized
CallSend ==
    /\ Settled
    /\ clicks < MaxClicks
    /\ IF finalizedGroups = <<>>
       THEN /\ error' = NoFinalizedMessage
            /\ UNCHANGED <<sendingEmails, sendQueue, sendPc, sendCycle>>
       ELSE /\ sendingEmails' = TRUE
            /\ error' = NoError
            /\ sendQueue' = SendUpdates(finalizedGroups, 1)
            /\ sendPc' = "updating"
            /\ sendCycle' = dashCycle
    /\ clicks' = clicks + 1
    /\ UNCHANGED <<dashCycle, responses, loading, activeTab, mounted, loads,
                   dashGroups, dashObjects, runningMatch, runs, toggles, edits>>
    /\ UNCHANGED runVars
    /\ UNCHANGED bucketVars

\* the Send button of the emails tab:
\* disabled={sendingEmails || no listed group is finalized}
SendClick ==
    /\ mounted
    /\ ~loading
    /\ activeTab = "emails"
    /\ ~sendingEmails
    /\ finalizedGroups # <<>>
    /\ CallSend

\* an updateDoc of handleSendEmails resolves
SendUpdateOk ==
    /\ Settled
    /\ sendPc = "updating"
    /\ surveyStore' = [surveyStore EXCEPT ![sendQueue[1].id] =
                          [status |-> sendQueue[1].status,
                           matchGroup |-> sendQueue[1].matchGroup]]
    /\ sendQueue' = Tail(sendQueue)
    /\ sendPc' = IF Tail(sendQueue) = <<>> THEN "refreshing" ELSE "updating"
    /\ UNCHANGED <<dashCycle, responses, loading, activeTab, mounted, loads,
                   dashGroups, dashObjects, runningMatch, runs, sendingEmails,
                   error, toggles, edits, sendCycle, clicks>>
    /\ UNCHANGED <<participants, groupsStore, pc, availabilityGroups, plan,
                   matchGroups, batch, storeOps, reported>>
    /\ UNCHANGED bucketVars

\* it rejects: the catch block sets the error, the remaining calls are not made
SendUpdateFail ==
    /\ Settled
    /\ sendPc = "updating"
    /\ error' = SetState(SendFailedMessage, error)
    /\ sendingEmails' = SetState(FALSE, sendingEmails)
    /\ sendQueue' = <<>>
    /\ sendPc' = "idle"
    /\ UNCHANGED <<dashCycle, responses, loading, activeTab, mounted, loads,
                   dashGroups, dashObjects, runningMatch, runs, toggles, edits,
                   sendCycle, clicks>>
    /\ UNCHANGED runVars
    /\ UNCHANGED bucketVars

\* the getDocs that refreshes the participants resolves: setParticipants of
\* the documents of the cycle the handler was called with
RefreshOk ==
    /\ Settled
    /\ sendPc = "refreshing"
    /\ participants' = SetState(SurveysOf(sendCycle), participants)
    /\ sendingEmails' = SetState(FALSE, sendingEmails)
    /\ sendPc' = "idle"
    /\ UNCHANGED <<surveyStore, groupsStore, pc, availabilityGroups, plan,
                   matchGroups, batch, storeOps, reported>>
    /\ UNCHANGED <<dashCycle, responses, loading, activeTab, loads, dashGroups,
                   dashObjects, runningMatch, runs, error, toggles, edits,
                   sendQueue, sendCycle, clicks>>
    /\ UNCHANGED bucketVars
    /\ mounted' = (mounted /\ Renders')

\* it rejects
RefreshFail ==
    /\ Settled
    /\ sendPc = "refreshing"
    /\ error' = SetState(SendFailedMessage, error)
    /\ sendingEmails' = SetState(FALSE, sendingEmails)
    /\ sendPc' = "idle"
    /\ UNCHANGED <<dashCycle, responses, loading, activeTab, mounted, loads,
                   dashGroups, dashObjects, runningMatch, runs, toggles, edits,
                   sendQueue, sendCycle, clicks>>
    /\ UNCHANGED runVars
    /\ UNCHANGED bucketVars

\* the steps of the runs in flight, of the loads and of the store writes
\* the other handlers await
Settlements ==
    \/ RunAddDocOk \/ RunAddDocFail \/ RunCommitOk \/ RunCommitFail \/ RunSettled
    \/ LoadSurveysOk \/ LoadGroupsOk \/ LoadFail
    \/ ToggleOk \/ ToggleFail \/ MeetingWriteOk \/ MeetingWriteFail
    \/ SendUpdateOk \/ SendUpdateFail \/ RefreshOk \/ RefreshFail

NextAdmin ==
    \/ SubmitSurvey \/ submitSurveyResponse \/ ResubmitSurvey
    \/ SetCycle \/ SetActiveTab
    \/ HandleRunMatching \/ ToggleClick
    \/ MeetingTimeChange \/ MeetingLocationChange \/ SendClick
    \/ Settlements

SpecAdmin == InitAdmin /\ [][NextAdmin]_vars

(***************************************************************************)
(* Runs of one dashboard one after the other, on the participants and the  *)
(* cycle it was mounted with.                                              *)
(***************************************************************************)
NextRerun ==
    \/ LoadSurveysOk \/ LoadGroupsOk \/ LoadFail
    \/ SetActiveTab \/ HandleRunMatching
    \/ RunAddDocOk \/ RunAddDocFail \/ RunCommitOk \/ RunCommitFail \/ RunSettled

SpecRerun == InitAdmin /\ [][NextRerun]_vars

(***************************************************************************)
(* Vocabulary of the properties                                            *)
(***************************************************************************)
MemberIds(g) == {g.participants[i].id : i \in DOMAIN g.participants}

GroupIds(groups) == [k \in DOMAIN groups |-> groups[k].id]

\* the ids of the groups the dashboard lists, in their order
ListedIds == [k \in DOMAIN dashGroups |-> dashObjects[dashGroups[k]].id]

GroupsOf(id) == {g \in DOMAIN matchGroups : id \in MemberIds(matchGroups[g])}

BucketIds(slot) ==
    {availabilityGroups[slot][j].id : j \in DOMAIN availabilityGroups[slot]}

PrimaryIds(slot) ==
    {i \in DOMAIN participants :
        participants[i].availability # <<>> /\ participants[i].availability[1] = slot}

ListingIds(slot) ==
    {i \in DOMAIN participants : slot \in Range(participants[i].availability)}

OverrideList(p, slot) ==
    IF slot = "Weekday Lunch" THEN p.weekdayLunchLocations
    ELSE IF slot = "Weekday Dinner" THEN p.weekdayDinnerLocations
    ELSE IF slot = "Weekend Lunch" THEN p.weekendLunchLocations
    ELSE p.weekendDinnerLocations

ResolvedList(p, slot) ==
    IF p.useSeparateLocations THEN OverrideList(p, slot) ELSE p.locations

Classified == pc \notin {"idle"} /\ ~ClassifyThrows(participants)

UpdatedIds == {batch[u].id : u \in DOMAIN batch}

Untouched(i) == surveyStore[i] = [status |-> "pending", matchGroup |-> NoGroup]

FailedOps == {k \in DOMAIN storeOps : ~storeOps[k].ok}

OkCreates == {k \in DOMAIN storeOps : storeOps[k].op = "addDoc" /\ storeOps[k].ok}

(***************************************************************************)
(* C1: every match group the run emits has at least 2 and at most 4        *)
(* participants.                                                           *)
(***************************************************************************)
C1_GroupSizeBound ==
    \A g \in DOMAIN matchGroups :
        /\ Len(matchGroups[g].participants) >= 2
        /\ Len(matchGroups[g].participants) <= 4

\* a bucket of five was split into a group of 3 and a group of 2
C1_Witness ==
    /\ pc = "done"
    /\ \E g, h \in DOMAIN matchGroups :
          /\ matchGroups[g].meetingTime = matchGroups[h].meetingTime
          /\ matchGroups[g].meetingLocation = matchGroups[h].meetingLocation
          /\ Len(matchGroups[g].participants) = 3
          /\ Len(matchGroups[h].participants) = 2

(***************************************************************************)
(* C2: every member of an emitted group lists the group's slot in their    *)
(* availability, and the group's location is the first entry of the        *)
(* member's resolved location list for that slot.                          *)
(***************************************************************************)
C2_MembersFitSlotAndLocation ==
    \A g \in DOMAIN matchGroups :
        \A i \in DOMAIN matchGroups[g].participants :
            LET p == matchGroups[g].participants[i]
                resolved == ResolvedList(p, matchGroups[g].meetingTime)
            IN  /\ matchGroups[g].meetingTime \in Range(p.availability)
                /\ resolved # <<>>
                /\ matchGroups[g].meetingLocation = resolved[1]

\* a group mixes a member placed by an override list that differs from their
\* general list with a member placed by their general list
C2_Witness ==
    /\ pc = "done"
    /\ \E g \in DOMAIN matchGroups :
          \E i, j \in DOMAIN matchGroups[g].participants :
              LET p == matchGroups[g].participants[i]
                  q == matchGroups[g].participants[j]
              IN  /\ p.useSeparateLocations
                  /\ p.locations # <<>>
                  /\ p.locations[1] # matchGroups[g].meetingLocation
                  /\ ~q.useSeparateLocations

(***************************************************************************)
(* C3: among the emitted groups of one slot and one location no            *)
(* participant id occurs twice, neither inside a group nor across groups.  *)
(***************************************************************************)
C3_OncePerSlotLocation ==
    \A g, h \in DOMAIN matchGroups :
        (/\ matchGroups[g].meetingTime = matchGroups[h].meetingTime
         /\ matchGroups[g].meetingLocation = matchGroups[h].meetingLocation)
        => \A i \in DOMAIN matchGroups[g].participants :
             \A j \in DOMAIN matchGroups[h].participants :
                (g # h \/ i # j)
                => matchGroups[g].participants[i].id # matchGroups[h].participants[j].id

\* two groups were emitted for the same slot and location
C3_Witness ==
    \E g, h \in DOMAIN matchGroups :
        /\ g # h
        /\ matchGroups[g].meetingTime = matchGroups[h].meetingTime
        /\ matchGroups[g].meetingLocation = matchGroups[h].meetingLocation

(***************************************************************************)
(* C4: after groupByAvailability every participant with a non-empty        *)
(* availability is in the bucket of availability[0].                       *)
(***************************************************************************)
C4_PrimarySlotCoverage ==
    Classified =>
        \A i \in DOMAIN participants :
            participants[i].availability # <<>>
            => i \in BucketIds(participants[i].availability[1])

\* classification ran on participants whose first choices differ and one of
\* whom ranks a second slot behind the first
C4_Witness ==
    /\ Classified
    /\ \E i, j \in DOMAIN participants :
          /\ Len(participants[i].availability) >= 2
          /\ participants[j].availability # <<>>
          /\ participants[j].availability[1] # participants[i].availability[1]

(***************************************************************************)
(* C5: a slot with fewer than 3 first-choice participants holds exactly    *)
(* the participants that list it anywhere; a slot with 3 or more holds     *)
(* exactly its first-choice participants.                                  *)
(***************************************************************************)
C5_BackfillThreshold ==
    Classified =>
        \A s \in SlotSet :
            IF Cardinality(PrimaryIds(s)) < 3
            THEN BucketIds(s) = ListingIds(s)
            ELSE BucketIds(s) = PrimaryIds(s)

\* one slot was backfilled, another one had 3 first choices and left out a
\* participant that lists it as a later choice
C5_Witness ==
    /\ Classified
    /\ \E s \in SlotSet :
          /\ Cardinality(PrimaryIds(s)) < 3
          /\ BucketIds(s) # PrimaryIds(s)
    /\ \E s \in SlotSet :
          /\ Cardinality(PrimaryIds(s)) >= 3
          /\ ListingIds(s) # PrimaryIds(s)

(***************************************************************************)
(* C6: a participant whose resolved location list for a slot is empty is   *)
(* in no emitted group of that slot; a participant with no locations and   *)
(* useSeparateLocations = false is in no group and gets no status update.  *)
(***************************************************************************)
C6_NoLocationNoGroup ==
    /\ \A i \in DOMAIN participants :
          \A g \in GroupsOf(i) :
              ResolvedList(participants[i], matchGroups[g].meetingTime) # <<>>
    /\ \A i \in DOMAIN participants :
          (participants[i].locations = <<>> /\ ~participants[i].useSeparateLocations)
          => /\ GroupsOf(i) = {}
             /\ i \notin UpdatedIds
             /\ Untouched(i)

\* a run emitted a group for a slot whose bucket holds a participant without
\* an override list for it, next to a participant without any location
C6_Witness ==
    /\ pc = "done"
    /\ \E g \in DOMAIN matchGroups :
          \E i \in BucketIds(matchGroups[g].meetingTime) :
              /\ participants[i].useSeparateLocations
              /\ ResolvedList(participants[i], matchGroups[g].meetingTime) = <<>>
    /\ \E i \in DOMAIN participants :
          /\ participants[i].locations = <<>>
          /\ ~participants[i].useSeparateLocations
          /\ participants[i].availability # <<>>

(***************************************************************************)
(* C7: a participant with an empty availability is in no slot bucket, in   *)
(* no emitted group, and is never marked matched.                          *)
(***************************************************************************)
C7_NoAvailabilityNoMatch ==
    \A i \in DOMAIN participants :
        participants[i].availability = <<>>
        => /\ \A s \in SlotSet : i \notin BucketIds(s)
           /\ GroupsOf(i) = {}
           /\ i \notin UpdatedIds
           /\ surveyStore[i].status # "matched"

\* a run that backfilled a slot and matched others finished with such a
\* participant among its input
C7_Witness ==
    /\ pc = "done"
    /\ matchGroups # <<>>
    /\ \E s \in SlotSet : BucketIds(s) # PrimaryIds(s)
    /\ \E i \in DOMAIN participants :
          participants[i].availability = <<>> /\ participants[i].locations # <<>>

(***************************************************************************)
(* C8: one run can put a participant into two emitted groups.  Two emitted *)
(* groups that share a participant always belong to different slots, and   *)
(* each of them that is not in the participant's first-choice slot belongs *)
(* to a slot with fewer than 3 first choices that the participant lists.   *)
(***************************************************************************)
C8_DoubleMembershipOnlyByBackfill ==
    \A i \in DOMAIN participants :
        \A g, h \in GroupsOf(i) :
            g # h =>
                /\ matchGroups[g].meetingTime # matchGroups[h].meetingTime
                /\ \A k \in {g, h} :
                      matchGroups[k].meetingTime # Availability0(participants[i])
                      => /\ Cardinality(PrimaryIds(matchGroups[k].meetingTime)) < 3
                         /\ i \in ListingIds(matchGroups[k].meetingTime)

\* a participant is in the group of their first-choice slot and in the group
\* of a backfilled slot
C8_Witness ==
    /\ pc = "done"
    /\ \E i \in DOMAIN participants :
          \E g, h \in GroupsOf(i) :
              /\ matchGroups[g].meetingTime = Availability0(participants[i])
              /\ matchGroups[h].meetingTime # Availability0(participants[i])
              /\ Cardinality(PrimaryIds(matchGroups[h].meetingTime)) < 3

(***************************************************************************)
(* C9: after a successful run every member of a returned group is          *)
(* 'matched' and references the last returned group that contains them.    *)
(***************************************************************************)
LastGroupOf(id) ==
    CHOOSE g \in GroupsOf(id) : \A h \in GroupsOf(id) : h <= g

C9_MatchedWithLastGroup ==
    pc = "done" =>
        \A i \in DOMAIN participants :
            GroupsOf(i) # {}
            => /\ surveyStore[i].status = "matched"
               /\ surveyStore[i].matchGroup = matchGroups[LastGroupOf(i)].id

\* the run succeeded with a participant in two groups
C9_Witness ==
    /\ pc = "done"
    /\ \E i \in DOMAIN participants : Cardinality(GroupsOf(i)) >= 2

(***************************************************************************)
(* C10: once a store operation of the run has failed, the run has ended in *)
(* failure, the failed operation is the last one issued, the groups        *)
(* created before it are all persisted, and no participant record changed. *)
(***************************************************************************)
C10_FailureStopsRun ==
    FailedOps # {} =>
        /\ pc = "failed"
        /\ FailedOps = {Len(storeOps)}
        /\ groupsStore = matchGroups
        /\ Len(groupsStore) = Cardinality(OkCreates)
        /\ \A i \in DOMAIN participants : Untouched(i)

\* the second create of a run failed after the first one had succeeded
C10_Witness ==
    /\ pc = "failed"
    /\ Len(groupsStore) >= 1
    /\ Len(plan) > Len(groupsStore)
    /\ storeOps[Len(storeOps)] = [op |-> "addDoc", ok |-> FALSE]

(***************************************************************************)
(* C11: when a store operation fails, the failure handed to the caller     *)
(* carries the groups that were created before it.                         *)
(***************************************************************************)
CarriedGroups(outcome) ==
    IF "groups" \in DOMAIN outcome THEN outcome.groups ELSE <<>>

C11_FailureCarriesCreatedGroups ==
    pc = "failed" => CarriedGroups(reported) = groupsStore

(***************************************************************************)
(* C12: the store operations of a run are the creates of the emitted       *)
(* groups, one after the other in the order of the returned sequence, and  *)
(* then one batch; the batch is not queued before the last create has      *)
(* completed and the groups are returned only after the batch committed.   *)
(***************************************************************************)
C12_StoreOperationOrder ==
    /\ \A k \in DOMAIN storeOps :
          /\ (storeOps[k].op = "addDoc" => k <= Len(plan))
          /\ (storeOps[k].op = "commit" => k = Len(plan) + 1)
          /\ \A j \in 1..(k - 1) : storeOps[j] = [op |-> "addDoc", ok |-> TRUE]
    /\ Len(groupsStore) <= Len(plan)
    /\ \A k \in DOMAIN groupsStore :
          groupsStore[k] = ([id |-> groupsStore[k].id] @@ plan[k])
    /\ (batch # <<>> \/ pc = "committing") => Len(groupsStore) = Len(plan)
    /\ reported.kind = "resolved" =>
          /\ Len(storeOps) = Len(plan) + 1
          /\ storeOps[Len(storeOps)] = [op |-> "commit", ok |-> TRUE]
          /\ reported.value = groupsStore

\* a run that emitted two groups or more has returned
C12_Witness ==
    /\ reported.kind = "resolved"
    /\ Len(plan) >= 2
    /\ batch # <<>>

(***************************************************************************)
(* C13: a failed run can leave groups persisted whose members have no      *)
(* status update.  The converse state, a status update written while a     *)
(* group of the run or the group it references is not persisted, never     *)
(* occurs.                                                                 *)
(***************************************************************************)
GroupsWithoutStatus ==
    /\ pc = "failed"
    /\ \E g \in DOMAIN groupsStore :
          \A i \in MemberIds(groupsStore[g]) : Untouched(i)

StatusWithoutGroup ==
    \E i \in DOMAIN participants :
        /\ ~Untouched(i)
        /\ \/ Len(groupsStore) < Len(plan)
           \/ ~\E g \in DOMAIN groupsStore :
                  /\ groupsStore[g].id = surveyStore[i].matchGroup
                  /\ i \in MemberIds(groupsStore[g])

C13_NoStatusWithoutGroup == ~StatusWithoutGroup

\* the batch of a run that had created two groups was rejected
C13_Witness ==
    /\ GroupsWithoutStatus
    /\ Len(groupsStore) >= 2
    /\ storeOps[Len(storeOps)] = [op |-> "commit", ok |-> FALSE]

\* the claim as made, read along a run that fails: the converse state is
\* reached as well
C13_ConverseReached == <>(pc = "failed") => <>StatusWithoutGroup

(***************************************************************************)
(* C17: a run on 0 or 1 participants emits nothing: it creates no group,   *)
(* updates no participant, fails only if the store fails, and returns the  *)
(* empty sequence.                                                         *)
(***************************************************************************)
C17_TooFewParticipants ==
    Len(participants) <= 1 =>
        /\ pc # "creating"
        /\ plan = <<>> /\ matchGroups = <<>> /\ groupsStore = <<>> /\ batch = <<>>
        /\ \A i \in DOMAIN participants : Untouched(i)
        /\ (pc = "failed" => FailedOps # {})
        /\ (pc = "done" => reported = Returned(<<>>))

\* the run on a single participant who has a slot and a location returned
C17_Witness ==
    /\ Len(participants) = 1
    /\ participants[1].availability # <<>>
    /\ ResolvedList(participants[1], participants[1].availability[1]) # <<>>
    /\ reported.kind = "resolved"

(***************************************************************************)
(* C19: for a bucket of N >= 2 participants createOptimalGroups returns    *)
(* exactly ceil(N / 4) groups, every participant of the bucket is in       *)
(* exactly one of them, and the run emits every one of these groups: no    *)
(* filter removes any.  The loop hands all of them to addDoc, in their     *)
(* order; the groups it has stored and pushed on matchGroups are the first *)
(* of them, all of them when it ends, and it stops short only when an      *)
(* addDoc rejects.                                                         *)
(***************************************************************************)
\* the places of the groups where the participant with this id stands
PlacesOf(groups, id) ==
    UNION {{<<g, k>> : k \in {j \in DOMAIN groups[g] : groups[g][j].id = id}} :
              g \in DOMAIN groups}

C19_BucketPartition ==
    pc \in {"grouped", "emitted", "failed"} =>
        /\ 4 * Len(built) >= Len(bucket)
        /\ 4 * (Len(built) - 1) < Len(bucket)
        /\ \A i \in DOMAIN bucket :
              /\ Cardinality(PlacesOf(built, bucket[i].id)) = 1
              /\ \A pl \in PlacesOf(built, bucket[i].id) :
                    built[pl[1]][pl[2]] = bucket[i]
        /\ \A g \in DOMAIN built :
              \A k \in DOMAIN built[g] : built[g][k] \in Range(bucket)
        /\ Len(BucketPlan) = Len(built)
        /\ \A g \in DOMAIN built : BucketPlan[g].participants = built[g]
        /\ matchGroups = bucketGroups
        /\ Len(bucketGroups) <= Len(built)
        /\ \A g \in DOMAIN bucketGroups :
              /\ bucketGroups[g].participants = built[g]
              /\ bucketGroups[g].id \in DOMAIN groupsStore
              /\ groupsStore[bucketGroups[g].id] = bucketGroups[g]
        /\ pc = "emitted" => Len(bucketGroups) = Len(built)
        /\ pc = "failed" =>
              /\ Len(bucketGroups) < Len(built)
              /\ storeOps[Len(storeOps)] = [op |-> "addDoc", ok |-> FALSE]
              /\ Len(storeOps) = Len(bucketGroups) + 1

\* five participants: two groups, the second of them of two
C19_Witness ==
    /\ pc = "emitted"
    /\ Len(bucket) = 5
    /\ Len(bucketGroups) = 2
    /\ Len(bucketGroups[2].participants) = 2

(***************************************************************************)
(* C20: when a bucket yields G >= 2 groups, a group holds at most          *)
(* ceil(m / G) of the m participants who share a primary practice area,    *)
(* and no group holds all the members of an area that has two or more.     *)
(***************************************************************************)
PrimaryArea(p) == p.practiceAreas[1]

AreaMembers(ps, area) == {k \in DOMAIN ps : PrimaryArea(ps[k]) = area}

C20_AreaSpread ==
    (pc \in {"grouped", "emitted"} /\ Len(built) >= 2) =>
        \A i \in DOMAIN bucket :
            LET area == PrimaryArea(bucket[i])
                m    == Cardinality(AreaMembers(bucket, area))
            IN  \A g \in DOMAIN built :
                    LET here == Cardinality(AreaMembers(built[g], area))
                    IN  /\ Len(built) * here < m + Len(built)
                        /\ (m >= 2 => here < m)

\* three groups, and an area of four members of whom one group has two
C20_Witness ==
    /\ pc = "emitted"
    /\ Len(built) = 3
    /\ \E i \in DOMAIN bucket :
          /\ Cardinality(AreaMembers(bucket, PrimaryArea(bucket[i]))) = 4
          /\ \E g \in DOMAIN built :
                Cardinality(AreaMembers(built[g], PrimaryArea(bucket[i]))) = 2

(***************************************************************************)
(* C14: a run that follows a completed run on the same participants and    *)
(* cycle stores a second full set of groups, with the memberships, slots   *)
(* and locations of the first set and with ids of their own, next to the   *)
(* first set; when it completes, every participant it matched references   *)
(* a group of the second set.                                              *)
(***************************************************************************)
SameMeeting(a, b) ==
    /\ a.participants = b.participants
    /\ a.meetingTime = b.meetingTime
    /\ a.meetingLocation = b.meetingLocation
    /\ a.cycle = b.cycle

RunGroupsOf(run, id) ==
    {g \in DOMAIN run.matchGroups : id \in MemberIds(run.matchGroups[g])}

\* the dashboard lists the groups of the run that completed before
C14_SecondRunDuplicates ==
    \A r \in DOMAIN runs :
        (runs[r].pc = "done" /\ dashGroups # <<>>) =>
            /\ Len(runs[r].matchGroups) = Len(dashGroups)
            /\ \A k \in DOMAIN dashGroups :
                  /\ runs[r].matchGroups[k].id \notin Range(ListedIds)
                  /\ runs[r].matchGroups[k].id \in DOMAIN groupsStore
                  /\ ListedIds[k] \in DOMAIN groupsStore
                  /\ groupsStore[ListedIds[k]].id = ListedIds[k]
                  /\ SameMeeting(groupsStore[ListedIds[k]],
                                 groupsStore[runs[r].matchGroups[k].id])
            /\ \A i \in {participants[k].id : k \in DOMAIN participants} :
                  RunGroupsOf(runs[r], i) # {} =>
                      /\ surveyStore[i].status = "matched"
                      /\ surveyStore[i].matchGroup
                            \in Range(GroupIds(runs[r].matchGroups))

\* a run has completed after an earlier one of two groups: four records
C14_Witness ==
    /\ Len(runs) = 1
    /\ runs[1].pc = "done"
    /\ Len(dashGroups) = 2
    /\ Len(runs[1].matchGroups) = 2
    /\ Len(groupsStore) = 4

(***************************************************************************)
(* C15: the run changes a participant record only from pending to matched  *)
(* (with its matchGroup): a record whose status is not pending does not    *)
(* become matched.  A record as the form has written it, without a status, *)
(* counts as pending.                                                      *)
(***************************************************************************)
C15_OnlyPendingBecomesMatched ==
    [][\A i \in DOMAIN surveyStore :
          (surveyStore'[i].status = "matched" /\ surveyStore[i].status # "matched")
              => surveyStore[i].status \in {"pending", NoStatus}]_vars

(***************************************************************************)
(* C16: a group is created with isFinalized = false, and isFinalized of a  *)
(* stored group changes only when an updateDoc of toggleGroupFinalization  *)
(* is applied: no step of a run changes it.                                *)
(***************************************************************************)
C16_FinalizedOnlyByToggle ==
    [][/\ \A g \in DOMAIN groupsStore :
             /\ g \in DOMAIN groupsStore'
             /\ groupsStore'[g].isFinalized # groupsStore[g].isFinalized => ToggleOk
       /\ \A g \in DOMAIN groupsStore' :
             g \notin DOMAIN groupsStore => ~groupsStore'[g].isFinalized]_vars

\* a run has completed next to a finalized group of an earlier run
C16_Witness ==
    /\ Len(runs) = 1
    /\ runs[1].pc = "done"
    /\ runs[1].matchGroups # <<>>
    /\ \A k \in DOMAIN runs[1].matchGroups :
          ~groupsStore[runs[1].matchGroups[k].id].isFinalized
    /\ \E g \in DOMAIN groupsStore :
          /\ g \notin Range(GroupIds(runs[1].matchGroups))
          /\ groupsStore[g].isFinalized

(***************************************************************************)
(* C21: when exactly 2 participants have a slot as their first choice,     *)
(* exactly 1 other participant lists it at a later position and the three  *)
(* resolve to the same first location for the slot, the bucket of the slot *)
(* has 3 members after backfill and the run emits exactly one group for    *)
(* the slot, made of these three.                                          *)
(***************************************************************************)
SparseSlot(slot) ==
    /\ Cardinality(PrimaryIds(slot)) = 2
    /\ Cardinality(ListingIds(slot) \ PrimaryIds(slot)) = 1
    /\ \A i \in ListingIds(slot) : ResolvedList(participants[i], slot) # <<>>
    /\ \A i, j \in ListingIds(slot) :
          ResolvedList(participants[i], slot)[1] = ResolvedList(participants[j], slot)[1]

PlanOf(slot) == {g \in DOMAIN plan : plan[g].meetingTime = slot}

C21_SparseSlotGroup ==
    Classified =>
        \A slot \in SlotSet :
            SparseSlot(slot) =>
                /\ Len(availabilityGroups[slot]) = 3
                /\ BucketIds(slot) = ListingIds(slot)
                /\ Cardinality(PlanOf(slot)) = 1
                /\ \A g \in PlanOf(slot) :
                      /\ Len(plan[g].participants) = 3
                      /\ MemberIds(plan[g]) = ListingIds(slot)

\* the scenario for Weekday Dinner, with the group stored
C21_Witness ==
    /\ pc = "done"
    /\ SparseSlot("Weekday Dinner")
    /\ \E g \in DOMAIN groupsStore :
          /\ groupsStore[g].meetingTime = "Weekday Dinner"
          /\ Len(groupsStore[g].participants) = 3

(***************************************************************************)
(* C22: when a participant's experienceLevel is none of the five bands the *)
(* run fails fast with a validation error naming the participant and the   *)
(* field, and produces no groups.                                          *)
(***************************************************************************)
UnknownBands == {i \in DOMAIN bucket : ~BandKnown(bucket[i])}

C22_UnknownBandRejected ==
    UnknownBands # {} => (pc \notin {"grouped", "emitted"} /\ bucketGroups = <<>>)

(***************************************************************************)
(* C23: with G = ceil(N / 4) groups, every participant is appended to the  *)
(* group with the fewest members, the lowest index on ties: the k-th       *)
(* participant placed (k from 0) goes to group k mod G, and after every    *)
(* placement the sizes of any two groups differ by at most 1.              *)
(***************************************************************************)
C23_RoundRobin ==
    pc = "placing" =>
        LET G == Len(working)
        IN  /\ 4 * G >= Len(bucket)
            /\ 4 * (G - 1) < Len(bucket)
            /\ \A k \in 0..(Len(placed) - 1) :
                  /\ (k \div G) + 1 \in DOMAIN working[(k % G) + 1]
                  /\ working[(k % G) + 1][(k \div G) + 1] = placed[k + 1]
            /\ \A g, h \in DOMAIN working : Len(working[g]) - Len(working[h]) <= 1

\* seven of nine placed into three groups: sizes 3, 2, 2
C23_Witness ==
    /\ pc = "placing"
    /\ Len(working) = 3
    /\ Len(placed) = 7
    /\ Len(working[1]) = 3
    /\ Len(working[3]) = 2

(***************************************************************************)
(* C24: participants are placed practice area after practice area, the     *)
(* areas in the order of their first occurrence in the bucket sorted by    *)
(* experience; inside an area by ascending experience band, and those of   *)
(* one band in their order in the bucket.                                  *)
(***************************************************************************)
\* p stands before q in the bucket sorted by experience; the ids were given
\* in the order of the bucket as it was handed over
BandBefore(p, q) ==
    \/ Level(p) < Level(q)
    \/ Level(p) = Level(q) /\ p.id < q.id

\* the first of an area in the bucket sorted by experience
AreaLead(area) ==
    CHOOSE p \in Range(bucket) :
        /\ p.practiceAreas[1] = area
        /\ \A q \in Range(bucket) \ {p} : q.practiceAreas[1] = area => BandBefore(p, q)

PlacedBefore(p, q) ==
    IF p.practiceAreas[1] = q.practiceAreas[1] THEN BandBefore(p, q)
    ELSE BandBefore(AreaLead(p.practiceAreas[1]), AreaLead(q.practiceAreas[1]))

C24_PlacementOrder ==
    (pc = "placing" /\ queue = <<>>) =>
        /\ Len(placed) = Len(bucket)
        /\ Range(placed) = Range(bucket)
        /\ \A x, y \in DOMAIN bucket : x < y => BandBefore(bucket[x], bucket[y])
        /\ \A x, y \in DOMAIN placed : x < y => PlacedBefore(placed[x], placed[y])

\* all are placed; the area order put a higher band before a lower one, and
\* the sort put a later participant before an earlier one
C24_Witness ==
    /\ pc = "placing"
    /\ queue = <<>>
    /\ \E x, y \in DOMAIN placed : x < y /\ Level(placed[x]) > Level(placed[y])
    /\ \E x, y \in DOMAIN placed :
          /\ x < y
          /\ placed[x].practiceAreas = placed[y].practiceAreas
          /\ Level(placed[x]) < Level(placed[y])
          /\ placed[x].id > placed[y].id

(***************************************************************************)
(* C25: an emitted group has exactly 2 members only when its bucket has    *)
(* exactly 2 or exactly 5 participants; for every other bucket of 3 or     *)
(* more all the groups built from it have 3 or 4 members.                  *)
(***************************************************************************)
C25_PairsOnlyFromTwoOrFive ==
    pc \in {"grouped", "emitted", "failed"} =>
        /\ \A g \in DOMAIN bucketGroups :
              Len(bucketGroups[g].participants) = 2 => Len(bucket) \in {2, 5}
        /\ (Len(bucket) >= 3 /\ Len(bucket) # 5) =>
              \A g \in DOMAIN built : Len(built[g]) \in {3, 4}

\* a bucket of five: a group of 3 and an emitted group of 2
C25_Witness ==
    /\ pc = "emitted"
    /\ \E g \in DOMAIN bucketGroups : Len(bucketGroups[g].participants) = 2
    /\ \E g \in DOMAIN built : Len(built[g]) = 3

(***************************************************************************)
(* C26: within one run a participant is a member of at most one emitted    *)
(* group per availability slot, hence of at most 4 emitted groups; a       *)
(* participant who lists a single slot is a member of at most one.         *)
(***************************************************************************)
PlannedFor(id) == {g \in DOMAIN plan : id \in MemberIds(plan[g])}

C26_OneGroupPerSlot ==
    \A i \in DOMAIN participants :
        /\ \A slot \in SlotSet : Cardinality(PlannedFor(i) \cap PlanOf(slot)) <= 1
        /\ Cardinality(PlannedFor(i)) <= 4
        /\ Cardinality(Range(participants[i].availability)) = 1
           => Cardinality(PlannedFor(i)) <= 1

\* one participant is in two stored groups, of different slots, next to a
\* participant who lists one slot and is in one stored group
C26_Witness ==
    /\ pc = "done"
    /\ \E i \in DOMAIN participants : Cardinality(GroupsOf(i)) = 2
    /\ \E i \in DOMAIN participants :
          /\ Len(participants[i].availability) = 1
          /\ Cardinality(GroupsOf(i)) = 1

(***************************************************************************)
(* C27: when the first availability label of any participant is none of    *)
(* the four slots, the run fails with the run-failure error before any     *)
(* store operation: no group is created and no participant is updated.     *)
(***************************************************************************)
UnknownFirstLabel ==
    {i \in DOMAIN participants :
        /\ participants[i].availability # <<>>
        /\ participants[i].availability[1] \notin
              {"Weekday Lunch", "Weekday Dinner", "Weekend Lunch", "Weekend Dinner"}}

C27_UnknownFirstLabelFailsRun ==
    (pc # "idle" /\ UnknownFirstLabel # {}) =>
        /\ pc = "failed"
        /\ reported = RunError
        /\ storeOps = <<>>
        /\ groupsStore = <<>>
        /\ matchGroups = <<>>
        /\ batch = <<>>
        /\ \A i \in DOMAIN participants : Untouched(i)

\* the run failed over one such participant although three others could
\* have been grouped
C27_Witness ==
    /\ pc = "failed"
    /\ Cardinality(UnknownFirstLabel) = 1
    /\ Cardinality(PrimaryIds("Weekday Lunch")) = 3
    /\ storeOps = <<>>

(***************************************************************************)
(* C28: a dashboard has at most one matching run in flight: while a call   *)
(* of handleRunMatching has not returned no second run is started,         *)
(* runningMatch is true exactly while a run is in flight, and the step     *)
(* that follows the end of a run, success or failure, sets it back to      *)
(* false.                                                                  *)
(***************************************************************************)
RunEnded == \E r \in DOMAIN runs : runs[r].pc \in {"done", "failed"}

C28_OneRunAtATime ==
    /\ [](Len(runs) <= 1)
    /\ [](mounted => (runningMatch <=> runs # <<>>))
    /\ [][(mounted /\ RunEnded) => (runs' = <<>> /\ ~runningMatch')]_vars

\* a run is in flight while the participants tab shows the Run button over
\* two participants or more, and a click could still be handled
C28_Witness ==
    /\ mounted
    /\ Len(runs) = 1
    /\ runs[1].pc = "creating"
    /\ ~loading
    /\ activeTab = "participants"
    /\ Len(participants) >= 2
    /\ clicks < MaxClicks

(***************************************************************************)
(* C29: handleSendEmails writes status 'emailed' only to members of groups *)
(* whose isFinalized is true when it is called, for the dashboard and,     *)
(* when no toggle is in flight, for the store; called with no finalized    *)
(* group it writes nothing to the store and reports an error.              *)
(***************************************************************************)
ListedFinalized ==
    {dashObjects[object].id : object \in {o \in Range(dashGroups) : dashObjects[o].isFinalized}}

SendCalled ==
    /\ clicks' # clicks
    /\ runs' = runs
    /\ toggles' = toggles
    /\ edits' = edits
    /\ dashCycle' = dashCycle
    /\ responses' = responses

SendStarts == sendPc = "idle" /\ sendPc' = "updating"

\* a record becomes 'emailed' only by the write that heads the queue
EmailedByQueue ==
    \A i \in DOMAIN surveyStore :
        (surveyStore'[i] # surveyStore[i] /\ surveyStore'[i].status = "emailed")
        => /\ sendQueue # <<>>
           /\ sendQueue[1].id = i
           /\ surveyStore'[i].matchGroup = sendQueue[1].matchGroup

\* the queue of a call holds members of groups that are finalized at the call
QueueOfFinalized ==
    SendStarts =>
        \A u \in Range(sendQueue') :
            /\ u.matchGroup \in ListedFinalized
            /\ toggles = <<>> => groupsStore[u.matchGroup].isFinalized
            /\ u.id \in MemberIds(groupsStore[u.matchGroup])
            /\ u.status = "emailed"

\* a call with no finalized group
NothingToSend ==
    (SendCalled /\ ListedFinalized = {}) =>
        /\ error' = NoFinalizedMessage
        /\ surveyStore' = surveyStore
        /\ groupsStore' = groupsStore
        /\ sendQueue' = <<>>
        /\ sendPc' = "idle"
        /\ ~sendingEmails'

C29_SendOnlyFinalized ==
    [][EmailedByQueue /\ QueueOfFinalized /\ NothingToSend]_vars

(***************************************************************************)
(* C30: when the store update of toggleGroupFinalization fails, the        *)
(* isFinalized the dashboard holds for the group is what it was before the *)
(* toggle and equals the stored value.                                     *)
(***************************************************************************)
\* the only toggle in flight settles and the store keeps the other value
SoleToggleFailed ==
    /\ Len(toggles) = 1
    /\ toggles' = <<>>
    /\ groupsStore' = groupsStore
    /\ groupsStore[toggles[1].groupId].isFinalized # toggles[1].isFinalized

\* of the object the dashboard lists for the group after the step
C30_FailedToggleLeavesFlag ==
    [][SoleToggleFailed =>
          \A object \in Range(dashGroups') :
              dashObjects'[object].id = toggles[1].groupId =>
              /\ dashObjects'[object].isFinalized = ~toggles[1].isFinalized
              /\ dashObjects'[object].isFinalized
                    = groupsStore'[toggles[1].groupId].isFinalized]_vars

====
